---- MODULE Spec2Model ----
(***************************************************************************)
(* A model of ironic-metadata: the HTTP metadata service that resolves a   *)
(* bare-metal node from the client IP of a request and renders OpenStack   *)
(* and EC2 style metadata documents from it.                               *)
(*                                                                         *)
(* Go strings are sequences of one-character strings, so that              *)
(* strings.Contains, strings.HasPrefix, strings.Split, strings.TrimSpace   *)
(* and net.SplitHostPort are computed as the library computes them.        *)
(* Values of type `any` (decoded JSON) are records [kind, val].            *)
(***************************************************************************)
EXTENDS Integers, Sequences, FiniteSets, TLC

VARIABLES
    ironicNodes,   \* the node collection of the Ironic API, in listing order
    ironic,        \* Clients.ironic: the connection handle, Nil or Client
    ironicUp,      \* Clients.ironicUp
    ironicFailed,  \* Clients.ironicFailed
    timeout,       \* Clients.timeout (seconds; 0 = no readiness polling)
    crashed,       \* the process died of a panic outside a request goroutine
    req,           \* the request last served (NoReq when idle)
    resp,          \* the response to it
    lookup,        \* what getNodeByIP returned to the handler (NotCalled if not called)
    arg,           \* the node or request a function was applied to directly (NoArg if none)
    ret,           \* what that function returned (NotCalled if none)
    ironicMux,     \* Clients.ironicMux: NoHolder, or the caller that holds it
    pc,            \* where each caller of GetIronicClient stands
    calls,         \* each caller's current (or last) call of GetIronicClient
    polling,       \* each caller's polling: its context, its done channel, its goroutine
    setter,        \* where a caller of SetIronicClient stands
    hist,          \* what has happened to the gateway so far
    inflight       \* the requests being served side by side: each one's getNodeByIP

\* the variables of the gateway taken step by step
gwVars == <<ironicMux, pc, calls, polling, setter, hist>>

\* the variables of the service and of the functions applied directly
svcVars == <<ironicNodes, req, resp, lookup, arg, ret, inflight>>

vars == <<ironicNodes, ironic, ironicUp, ironicFailed, timeout, crashed, req, resp, lookup,
          arg, ret, gwVars, inflight>>

(***************************************************************************)
(* Strings                                                                 *)
(***************************************************************************)

\* x bound to a local name: `v := x`, then F(v)
With(x, F(_)) == F(x)

\* strings.HasPrefix
HasPrefix(s, prefix) ==
    Len(s) >= Len(prefix) /\ SubSeq(s, 1, Len(prefix)) = prefix

\* strings.Contains: sub occurs in s at some offset (the empty string always does)
Contains(s, sub) ==
    \E i \in 0..(Len(s) - Len(sub)) : SubSeq(s, i + 1, i + Len(sub)) = sub

\* strings.IndexByte, 1-based; 0 when c does not occur
IndexByte(s, c) ==
    IF \E i \in 1..Len(s) : s[i] = c
    THEN CHOOSE i \in 1..Len(s) : s[i] = c /\ \A j \in 1..(i - 1) : s[j] # c
    ELSE 0

\* strings.LastIndexByte, 1-based; 0 when c does not occur
LastIndexByte(s, c) ==
    IF \E i \in 1..Len(s) : s[i] = c
    THEN CHOOSE i \in 1..Len(s) : s[i] = c /\ \A j \in (i + 1)..Len(s) : s[j] # c
    ELSE 0

\* strings.Split(s, sep)[0]: the text before the first separator, or all of s
SplitFirst(s, sep) ==
    IF IndexByte(s, sep) = 0 THEN s ELSE SubSeq(s, 1, IndexByte(s, sep) - 1)

IsSpace(c) == c \in {" ", "\t", "\n", "\r"}

\* strings.TrimSpace
TrimSpace(s) ==
    IF \A i \in 1..Len(s) : IsSpace(s[i])
    THEN <<>>
    ELSE LET first == CHOOSE i \in 1..Len(s) :
                          ~IsSpace(s[i]) /\ \A j \in 1..(i - 1) : IsSpace(s[j])
             last  == CHOOSE i \in 1..Len(s) :
                          ~IsSpace(s[i]) /\ \A j \in (i + 1)..Len(s) : IsSpace(s[j])
         IN  SubSeq(s, first, last)

\* net.SplitHostPort: [host, err]; the port is not used by the service
SplitHostPort(hostport) ==
    LET i    == LastIndexByte(hostport, ":")
        fail == [host |-> <<>>, err |-> TRUE]
    IN  IF i = 0 THEN fail                                     \* missing port
        ELSE IF hostport[1] = "["
        THEN LET end == IndexByte(hostport, "]")
             IN  IF end = 0 THEN fail                          \* missing ']'
                 ELSE IF end + 1 # i THEN fail                 \* missing port / too many colons
                 ELSE IF \E p \in 2..Len(hostport) : hostport[p] = "[" THEN fail
                 ELSE IF \E p \in (end + 1)..Len(hostport) : hostport[p] = "]" THEN fail
                 ELSE [host |-> SubSeq(hostport, 2, end - 1), err |-> FALSE]
        ELSE IF IndexByte(SubSeq(hostport, 1, i - 1), ":") # 0 THEN fail   \* too many colons
        ELSE IF \E p \in 1..Len(hostport) : hostport[p] \in {"[", "]"} THEN fail
        ELSE [host |-> SubSeq(hostport, 1, i - 1), err |-> FALSE]

(***************************************************************************)
(* Request Router: client IP extraction                                    *)
(***************************************************************************)

\* A header that is not set reads as the empty string (http.Header.Get).
\* getClientIP, were X-Real-IP to win over X-Forwarded-For
getClientIPRealFirst(r) ==
    IF r.xri # <<>> THEN r.xri
    ELSE IF r.xff # <<>> THEN TrimSpace(SplitFirst(r.xff, ","))
    ELSE IF SplitHostPort(r.remoteAddr).err THEN r.remoteAddr
    ELSE SplitHostPort(r.remoteAddr).host

getClientIP(r) ==
    IF r.xff # <<>> THEN TrimSpace(SplitFirst(r.xff, ","))
    ELSE IF r.xri # <<>> THEN r.xri
    ELSE IF SplitHostPort(r.remoteAddr).err THEN r.remoteAddr
    ELSE SplitHostPort(r.remoteAddr).host

(***************************************************************************)
(* Decoded JSON (values of type `any`) and the JSON object keys in use     *)
(***************************************************************************)

JStr(s) == [kind |-> "string", val |-> s]
JNum(n) == [kind |-> "number", val |-> n]
JNull == [kind |-> "null", val |-> <<>>]
JObj(m) == [kind |-> "object", val |-> m]
JArr(a) == [kind |-> "array", val |-> a]

\* a map with no entries (also the nil map: both have length 0)
EmptyMap == [k \in {} |-> JNull]

\* the comma-ok map lookup `v, exists := m[k]`
Has(m, k) == k \in DOMAIN m

\* the type assertion v.(string)
IsString(v) == v.kind = "string"

\* a nil pointer
Nil == [nil |-> TRUE]

K_configdrive == <<"c", "o", "n", "f", "i", "g", "d", "r", "i", "v", "e">>
K_public_keys == <<"p", "u", "b", "l", "i", "c", "_", "k", "e", "y", "s">>
K_user_data == <<"u", "s", "e", "r", "_", "d", "a", "t", "a">>
K_network_data == <<"n", "e", "t", "w", "o", "r", "k", "_", "d", "a", "t", "a">>
K_fixed_ips == <<"f", "i", "x", "e", "d", "_", "i", "p", "s">>
K_ip_address == <<"i", "p", "_", "a", "d", "d", "r", "e", "s", "s">>
K_deploy_ramdisk_options == <<"d", "e", "p", "l", "o", "y", "_", "r", "a", "m", "d", "i", "s", "k", "_", "o", "p", "t", "i", "o", "n", "s">>
K_ipa_api_url == <<"i", "p", "a", "-", "a", "p", "i", "-", "u", "r", "l">>
K_meta_data == <<"m", "e", "t", "a", "_", "d", "a", "t", "a">>
K_vendor_data == <<"v", "e", "n", "d", "o", "r", "_", "d", "a", "t", "a">>
K_hostname == <<"h", "o", "s", "t", "n", "a", "m", "e">>
K_instance_type == <<"i", "n", "s", "t", "a", "n", "c", "e", "_", "t", "y", "p", "e">>
K_links == <<"l", "i", "n", "k", "s">>
K_networks == <<"n", "e", "t", "w", "o", "r", "k", "s">>
K_services == <<"s", "e", "r", "v", "i", "c", "e", "s">>
K_id == <<"i", "d">>
K_type == <<"t", "y", "p", "e">>
K_link == <<"l", "i", "n", "k">>
K_mtu == <<"m", "t", "u">>
K_uuid == <<"u", "u", "i", "d">>
K_name == <<"n", "a", "m", "e">>
K_project_id == <<"p", "r", "o", "j", "e", "c", "t", "_", "i", "d">>
K_launch_index == <<"l", "a", "u", "n", "c", "h", "_", "i", "n", "d", "e", "x">>
K_meta == <<"m", "e", "t", "a">>
K_keys == <<"k", "e", "y", "s">>
K_creation_time == <<"c", "r", "e", "a", "t", "i", "o", "n", "_", "t", "i", "m", "e">>
K_address == <<"a", "d", "d", "r", "e", "s", "s">>

(***************************************************************************)
(* encoding/json: decoding a JSON value into the config-drive structs.     *)
(* A member of the wrong JSON kind is a type error: the field keeps its    *)
(* zero value and Unmarshal returns an error; null leaves a field alone;   *)
(* unknown members are ignored.                                            *)
(***************************************************************************)

StrErr(m, k) == Has(m, k) /\ m[k].kind \notin {"string", "null"}
IntErr(m, k) == Has(m, k) /\ m[k].kind \notin {"number", "null"}
GetStr(m, k) == IF Has(m, k) /\ m[k].kind = "string" THEN m[k].val ELSE <<>>
GetInt(m, k) == IF Has(m, k) /\ m[k].kind = "number" THEN m[k].val ELSE 0

\* metadata.Link (the fields the service sets itself: id, type, mtu)
DecodeLink(v) ==
    LET m == IF v.kind = "object" THEN v.val ELSE EmptyMap
    IN  [err  |-> v.kind \notin {"object", "null"}
                  \/ StrErr(m, K_id) \/ StrErr(m, K_type) \/ IntErr(m, K_mtu),
         data |-> [ID |-> GetStr(m, K_id), Type |-> GetStr(m, K_type), MTU |-> GetInt(m, K_mtu)]]

\* metadata.Network
DecodeNetwork(v) ==
    LET m == IF v.kind = "object" THEN v.val ELSE EmptyMap
    IN  [err  |-> v.kind \notin {"object", "null"}
                  \/ StrErr(m, K_id) \/ StrErr(m, K_link) \/ StrErr(m, K_type)
                  \/ StrErr(m, K_ip_address),
         data |-> [ID |-> GetStr(m, K_id), Link |-> GetStr(m, K_link),
                   Type |-> GetStr(m, K_type), IPAddress |-> GetStr(m, K_ip_address)]]

\* metadata.Service
DecodeService(v) ==
    LET m == IF v.kind = "object" THEN v.val ELSE EmptyMap
    IN  [err  |-> v.kind \notin {"object", "null"} \/ StrErr(m, K_type) \/ StrErr(m, K_address),
         data |-> [Type |-> GetStr(m, K_type), Address |-> GetStr(m, K_address)]]

\* *metadata.NetworkData: a pointer, nil unless the member is an object; Slice is
\* a slice member k of object n, each element decoded by D
DecodeNetworkData(m) ==
    IF ~Has(m, K_network_data) \/ m[K_network_data].kind = "null"
    THEN [err |-> FALSE, data |-> Nil]
    ELSE IF m[K_network_data].kind # "object" THEN [err |-> TRUE, data |-> Nil]
    ELSE LET n == m[K_network_data].val
             Slice(k, D(_)) ==
                 IF ~Has(n, k) \/ n[k].kind = "null" THEN [err |-> FALSE, data |-> <<>>]
                 ELSE IF n[k].kind # "array" THEN [err |-> TRUE, data |-> <<>>]
                 ELSE [err  |-> \E i \in 1..Len(n[k].val) : D(n[k].val[i]).err,
                       data |-> [i \in 1..Len(n[k].val) |-> D(n[k].val[i]).data]]
             l == Slice(K_links, DecodeLink)
             w == Slice(K_networks, DecodeNetwork)
             s == Slice(K_services, DecodeService)
         IN  [err  |-> l.err \/ w.err \/ s.err,
              data |-> [Links |-> l.data, Networks |-> w.data, Services |-> s.data]]

\* *metadata.MetaData as far as the service reads it: Hostname and InstanceType
DecodeMetaData(m) ==
    IF ~Has(m, K_meta_data) \/ m[K_meta_data].kind = "null"
    THEN [err |-> FALSE, data |-> Nil]
    ELSE IF m[K_meta_data].kind # "object" THEN [err |-> TRUE, data |-> Nil]
    ELSE LET n == m[K_meta_data].val
         IN  [err  |-> StrErr(n, K_uuid) \/ StrErr(n, K_name) \/ StrErr(n, K_hostname)
                       \/ StrErr(n, K_project_id) \/ StrErr(n, K_instance_type),
              data |-> [Hostname |-> GetStr(n, K_hostname),
                        InstanceType |-> GetStr(n, K_instance_type)]]

\* map[string]string: entries whose value is a string (or null, read as "")
DecodeStringMap(m, k) ==
    IF ~Has(m, k) \/ m[k].kind = "null" THEN [err |-> FALSE, data |-> EmptyMap]
    ELSE IF m[k].kind # "object" THEN [err |-> TRUE, data |-> EmptyMap]
    ELSE LET o == m[k].val
         IN  [err  |-> \E n \in DOMAIN o : o[n].kind \notin {"string", "null"},
              data |-> [n \in DOMAIN o |-> IF o[n].kind = "string" THEN o[n].val ELSE <<>>]]

\* the zero configDriveData
ZeroConfigDrive ==
    [MetaData |-> Nil, UserData |-> <<>>, NetworkData |-> Nil, PublicKeys |-> EmptyMap]

\* json.Unmarshal of the JSON value v into a configDriveData (VendorData, which
\* the service never reads, is checked for its kind and not kept)
DecodeConfigDrive(v) ==
    IF v.kind = "null" THEN [err |-> FALSE, data |-> ZeroConfigDrive]
    ELSE IF v.kind # "object" THEN [err |-> TRUE, data |-> ZeroConfigDrive]
    ELSE LET m  == v.val
             md == DecodeMetaData(m)
             nd == DecodeNetworkData(m)
             pk == DecodeStringMap(m, K_public_keys)
         IN  [err  |-> md.err \/ nd.err \/ pk.err \/ StrErr(m, K_user_data)
                       \/ (Has(m, K_vendor_data)
                           /\ m[K_vendor_data].kind \notin {"object", "null"}),
              data |-> [MetaData |-> md.data, UserData |-> GetStr(m, K_user_data),
                        NetworkData |-> nd.data, PublicKeys |-> pk.data]]

(***************************************************************************)
(* encoding/json: parsing a JSON text.  The texts of the model are objects *)
(* whose members are strings without escapes, non-negative integers and    *)
(* objects, with optional white space; anything else is a syntax error.    *)
(***************************************************************************)

ParseFail == [ok |-> FALSE, val |-> JNull, next |-> 0]

\* the first position from p on that holds no white space
SkipSpace(t, p) ==
    IF \E q \in p..Len(t) : ~IsSpace(t[q])
    THEN CHOOSE q \in p..Len(t) : ~IsSpace(t[q]) /\ \A j \in p..(q - 1) : IsSpace(t[j])
    ELSE Len(t) + 1

Digits == <<"0", "1", "2", "3", "4", "5", "6", "7", "8", "9">>
IsDigit(c) == \E d \in 1..10 : Digits[d] = c
DigitVal(c) == (CHOOSE d \in 1..10 : Digits[d] = c) - 1

RECURSIVE NumVal(_)
NumVal(s) == IF s = <<>> THEN 0 ELSE 10 * NumVal(SubSeq(s, 1, Len(s) - 1)) + DigitVal(s[Len(s)])

\* a string literal opening at p
ParseString(t, p) ==
    IF p > Len(t) \/ t[p] # "\"" THEN ParseFail
    ELSE IF ~\E q \in (p + 1)..Len(t) : t[q] = "\"" THEN ParseFail
    ELSE LET q == CHOOSE q \in (p + 1)..Len(t) :
                      t[q] = "\"" /\ \A j \in (p + 1)..(q - 1) : t[j] # "\""
         IN  [ok |-> TRUE, val |-> JStr(SubSeq(t, p + 1, q - 1)), next |-> q + 1]

\* a number opening at p
ParseNumber(t, p) ==
    LET q == IF \E e \in p..Len(t) : ~IsDigit(t[e])
             THEN CHOOSE e \in p..Len(t) : ~IsDigit(t[e]) /\ \A j \in p..(e - 1) : IsDigit(t[j])
             ELSE Len(t) + 1
    IN  [ok |-> TRUE, val |-> JNum(NumVal(SubSeq(t, p, q - 1))), next |-> q]

RECURSIVE ParseValue(_, _), ParseMembers(_, _, _)

\* the value opening at or after p
ParseValue(t, p0) ==
    LET p == SkipSpace(t, p0)
    IN  IF p > Len(t) THEN ParseFail
        ELSE IF t[p] = "\"" THEN ParseString(t, p)
        ELSE IF IsDigit(t[p]) THEN ParseNumber(t, p)
        ELSE IF t[p] = "{"
        THEN LET q == SkipSpace(t, p + 1)
             IN  IF q <= Len(t) /\ t[q] = "}"
                 THEN [ok |-> TRUE, val |-> JObj(EmptyMap), next |-> q + 1]
                 ELSE ParseMembers(t, q, EmptyMap)
        ELSE ParseFail

\* the members of an object from p on, added to acc (a repeated key: the last wins)
ParseMembers(t, p, acc) ==
    LET k == ParseString(t, SkipSpace(t, p))
        c == SkipSpace(t, k.next)
    IN  IF ~k.ok \/ c > Len(t) \/ t[c] # ":" THEN ParseFail
        ELSE LET v == ParseValue(t, c + 1)
                 e == SkipSpace(t, v.next)
                 m == (k.val.val :> v.val) @@ acc
             IN  IF ~v.ok \/ e > Len(t) THEN ParseFail
                 ELSE IF t[e] = "}" THEN [ok |-> TRUE, val |-> JObj(m), next |-> e + 1]
                 ELSE IF t[e] = "," THEN ParseMembers(t, e + 1, m)
                 ELSE ParseFail

\* json.Unmarshal([]byte(text), &configData): [err, data]
UnmarshalConfigDrive(text) ==
    LET v == ParseValue(text, 1)
    IN  IF ~v.ok \/ SkipSpace(text, v.next) <= Len(text)
        THEN [err |-> TRUE, data |-> ZeroConfigDrive]
        ELSE DecodeConfigDrive(v.val)

(***************************************************************************)
(* Metadata Renderer.  A node is the nodes.Node the Ironic API returns:    *)
(* [UUID, Name, Owner, CreatedAt, Properties, DriverInfo, InstanceInfo],   *)
(* the last three of type map[string]any.  An error is its message, the    *)
(* nil error is NoErr.                                                     *)
(***************************************************************************)

NoErr == ""

\* extractFromConfigDrive: [err, data].  json.Marshal of a value that was itself
\* decoded from JSON cannot fail, so Marshal followed by Unmarshal is the decoding
\* of that value into the struct.
extractFromConfigDrive(node) ==
    IF ~Has(node.InstanceInfo, K_configdrive)
    THEN [err |-> "no configdrive found", data |-> Nil]
    ELSE LET configDriveInfo == node.InstanceInfo[K_configdrive]
         IN  IF IsString(configDriveInfo)
             THEN IF HasPrefix(configDriveInfo.val, <<"{">>)
                     /\ ~UnmarshalConfigDrive(configDriveInfo.val).err
                  THEN [err  |-> "configdrive is a JSON string, not a file path or URL",
                        data |-> Nil]
                  ELSE [err  |-> "ISO configdrive parsing not yet implemented",
                        data |-> Nil]
             ELSE With(DecodeConfigDrive(configDriveInfo), LAMBDA resData :
                      IF resData.err
                      THEN [err |-> "failed to unmarshal configdrive data", data |-> Nil]
                      ELSE [err |-> NoErr, data |-> resData.data])

\* getNodeHostname, were it to return the name even when it is empty
getNodeHostnameNameOnly(node) == node.Name

getNodeHostname(node) == IF node.Name # <<>> THEN node.Name ELSE node.UUID

getProjectID(node) == node.Owner

\* StringEntries, were a non-string value kept as the empty string
StringEntriesKeepAll(m) == [k \in DOMAIN m |-> IF IsString(m[k]) THEN m[k].val ELSE <<>>]

\* the string-valued entries of a map[string]any
StringEntries(m) == [k \in {n \in DOMAIN m : IsString(m[n])} |-> m[k].val]

\* buildMetaData, were the dynamically-derived public keys and meta entries
\* filled in whatever the config-drive holds
buildMetaDataMerged(node) ==
    LET metaData == [UUID |-> node.UUID, Name |-> node.Name,
                     Hostname |-> getNodeHostname(node), LaunchIndex |-> 0,
                     PublicKeys |-> IF Has(node.InstanceInfo, K_public_keys)
                                       /\ node.InstanceInfo[K_public_keys].kind = "object"
                                    THEN StringEntries(node.InstanceInfo[K_public_keys].val)
                                    ELSE EmptyMap,
                     Meta |-> StringEntries(node.Properties), Keys |-> <<>>,
                     ProjectID |-> getProjectID(node), CreationTime |-> node.CreatedAt,
                     InstanceType |-> <<>>]
    IN  With(extractFromConfigDrive(node), LAMBDA cd :
        IF cd.err = NoErr
        THEN [metaData EXCEPT
                !.InstanceType = IF cd.data.MetaData # Nil
                                 THEN cd.data.MetaData.InstanceType ELSE @,
                !.Hostname = IF cd.data.MetaData # Nil /\ cd.data.MetaData.Hostname # <<>>
                             THEN cd.data.MetaData.Hostname ELSE @,
                !.PublicKeys = IF Cardinality(DOMAIN cd.data.PublicKeys) > 0
                               THEN cd.data.PublicKeys ELSE @]
        ELSE metaData)

\* buildMetaData
buildMetaData(node) ==
    LET metaData == [UUID |-> node.UUID, Name |-> node.Name,
                     Hostname |-> getNodeHostname(node), LaunchIndex |-> 0,
                     PublicKeys |-> EmptyMap, Meta |-> EmptyMap, Keys |-> <<>>,
                     ProjectID |-> getProjectID(node), CreationTime |-> node.CreatedAt,
                     InstanceType |-> <<>>]
    IN  With(extractFromConfigDrive(node), LAMBDA cd :
        IF cd.err = NoErr
        THEN [metaData EXCEPT
                !.InstanceType = IF cd.data.MetaData # Nil
                                 THEN cd.data.MetaData.InstanceType ELSE @,
                !.Hostname = IF cd.data.MetaData # Nil /\ cd.data.MetaData.Hostname # <<>>
                             THEN cd.data.MetaData.Hostname ELSE @,
                !.PublicKeys = IF Cardinality(DOMAIN cd.data.PublicKeys) > 0
                               THEN cd.data.PublicKeys ELSE @]
        ELSE [metaData EXCEPT
                !.PublicKeys = IF Has(node.InstanceInfo, K_public_keys)
                                  /\ node.InstanceInfo[K_public_keys].kind = "object"
                               THEN StringEntries(node.InstanceInfo[K_public_keys].val)
                               ELSE @,
                !.Meta = StringEntries(node.Properties)])

\* the fallback topology of buildNetworkData
FallbackNetworkData ==
    [Links    |-> << [ID |-> <<"e", "t", "h", "0">>,
                      Type |-> <<"p", "h", "y", "s", "i", "c", "a", "l">>,
                      MTU |-> 1500] >>,
     Networks |-> << [ID |-> <<"n", "e", "t", "w", "o", "r", "k", "0">>,
                      Link |-> <<"e", "t", "h", "0">>,
                      Type |-> <<"i", "p", "v", "4">>,
                      IPAddress |-> <<>>] >>,
     Services |-> <<>>]

\* buildNetworkData, were instance_info.network_data used when the config-drive
\* supplies no network data
buildNetworkDataFromInstanceInfo(node) ==
    With(extractFromConfigDrive(node), LAMBDA cd :
        IF cd.err = NoErr /\ cd.data.NetworkData # Nil
        THEN cd.data.NetworkData
        ELSE IF DecodeNetworkData(node.InstanceInfo).data # Nil
        THEN DecodeNetworkData(node.InstanceInfo).data
        ELSE FallbackNetworkData)

\* buildNetworkData (instance_info.network_data is looked up and not used)
buildNetworkData(node) ==
    With(extractFromConfigDrive(node), LAMBDA cd :
        IF cd.err = NoErr /\ cd.data.NetworkData # Nil
        THEN cd.data.NetworkData
        ELSE FallbackNetworkData)

\* getUserData, were instance_info.user_data to win over the config-drive
getUserDataInstanceInfoFirst(node) ==
    With(extractFromConfigDrive(node), LAMBDA cd :
        IF Has(node.InstanceInfo, K_user_data) /\ IsString(node.InstanceInfo[K_user_data])
        THEN node.InstanceInfo[K_user_data].val
        ELSE IF cd.err = NoErr /\ cd.data.UserData # <<>>
        THEN cd.data.UserData
        ELSE <<>>)

\* getUserData
getUserData(node) ==
    With(extractFromConfigDrive(node), LAMBDA cd :
        IF cd.err = NoErr /\ cd.data.UserData # <<>>
        THEN cd.data.UserData
        ELSE IF Has(node.InstanceInfo, K_user_data) /\ IsString(node.InstanceInfo[K_user_data])
        THEN node.InstanceInfo[K_user_data].val
        ELSE <<>>)

(***************************************************************************)
(* Node Resolver                                                           *)
(***************************************************************************)

\* the config-drive signal of nodeHasIP
configDriveHasIP(node, targetIP) ==
    With(extractFromConfigDrive(node), LAMBDA cd :
        /\ cd.err = NoErr
        /\ cd.data.NetworkData # Nil
        /\ \E i \in 1..Len(cd.data.NetworkData.Networks) :
               cd.data.NetworkData.Networks[i].IPAddress = targetIP)

\* the instance_info.fixed_ips signal of nodeHasIP
fixedIPsHasIP(node, targetIP) ==
    /\ Has(node.InstanceInfo, K_fixed_ips)
    /\ node.InstanceInfo[K_fixed_ips].kind = "array"
    /\ \E i \in 1..Len(node.InstanceInfo[K_fixed_ips].val) :
           LET ip == node.InstanceInfo[K_fixed_ips].val[i]
           IN  /\ ip.kind = "object"
               /\ Has(ip.val, K_ip_address)
               /\ IsString(ip.val[K_ip_address])
               /\ ip.val[K_ip_address].val = targetIP

\* the driver_info.deploy_ramdisk_options["ipa-api-url"] signal of nodeHasIP
ipaURLHasIP(node, targetIP) ==
    /\ Has(node.DriverInfo, K_deploy_ramdisk_options)
    /\ node.DriverInfo[K_deploy_ramdisk_options].kind = "object"
    /\ LET options == node.DriverInfo[K_deploy_ramdisk_options].val
       IN  /\ Has(options, K_ipa_api_url)
           /\ IsString(options[K_ipa_api_url])
           /\ Contains(options[K_ipa_api_url].val, targetIP)

\* the node name signal of nodeHasIP
nameHasIP(node, targetIP) == Contains(node.Name, targetIP)

\* nodeHasIP
nodeHasIP(node, targetIP) ==
    \/ configDriveHasIP(node, targetIP)
    \/ fixedIPsHasIP(node, targetIP)
    \/ ipaURLHasIP(node, targetIP)
    \/ nameHasIP(node, targetIP)

(***************************************************************************)
(* String literals of the handlers                                         *)
(***************************************************************************)

S_NodeNotFound == <<"N", "o", "d", "e", " ", "n", "o", "t", " ", "f", "o", "u", "n", "d">>
S_UserDataNotFound == <<"U", "s", "e", "r", " ", "d", "a", "t", "a", " ", "n", "o", "t", " ", "f", "o", "u", "n", "d">>
S_InternalServerError == <<"I", "n", "t", "e", "r", "n", "a", "l", " ", "S", "e", "r", "v", "e", "r", " ", "E", "r", "r", "o", "r">>
S_latest == <<"l", "a", "t", "e", "s", "t">>
S_meta_data_json == <<"m", "e", "t", "a", "_", "d", "a", "t", "a", ".", "j", "s", "o", "n">>
S_network_data_json == <<"n", "e", "t", "w", "o", "r", "k", "_", "d", "a", "t", "a", ".", "j", "s", "o", "n">>
S_user_data == <<"u", "s", "e", "r", "_", "d", "a", "t", "a">>
S_vendor_data_json == <<"v", "e", "n", "d", "o", "r", "_", "d", "a", "t", "a", ".", "j", "s", "o", "n">>
S_vendor_data2_json == <<"v", "e", "n", "d", "o", "r", "_", "d", "a", "t", "a", "2", ".", "j", "s", "o", "n">>
S_meta_data_dir == <<"m", "e", "t", "a", "-", "d", "a", "t", "a", "/">>
S_user_data_ec2 == <<"u", "s", "e", "r", "-", "d", "a", "t", "a">>
S_instance_id == <<"i", "n", "s", "t", "a", "n", "c", "e", "-", "i", "d">>
S_hostname == <<"h", "o", "s", "t", "n", "a", "m", "e">>
S_local_ipv4 == <<"l", "o", "c", "a", "l", "-", "i", "p", "v", "4">>
S_ironic == <<"i", "r", "o", "n", "i", "c">>
S_version == <<"v", "e", "r", "s", "i", "o", "n">>
S_1_0 == <<"1", ".", "0">>
S_static == <<"s", "t", "a", "t", "i", "c">>
S_ironic_metadata == <<"i", "r", "o", "n", "i", "c", "-", "m", "e", "t", "a", "d", "a", "t", "a">>

(***************************************************************************)
(* Orchestration Client Gateway, as one call.  The readiness polling of a  *)
(* call ends in one of PollOutcomes: "ready" (both probes succeeded before *)
(* the deadline), "timeout" (the select took ctx.Done()), or "late" (the   *)
(* select took done although the deadline has passed, so ctx.Err() is set  *)
(* when the call returns).                                                 *)
(***************************************************************************)

\* a non-nil *gophercloud.ServiceClient
Client == [nil |-> FALSE]

PollOutcomes == {"ready", "timeout", "late"}

\* GetIronicClient: what it returns and the flags it leaves.  Polling with a nil
\* handle dereferences it in the polling goroutine (waitForAPI), which ends the
\* process.
GetIronicClient(poll) ==
    IF ironicUp \/ timeout = 0
    THEN [client |-> ironic, err |-> NoErr,
          up |-> ironicUp, failed |-> ironicFailed, crash |-> FALSE]
    ELSE IF ironicFailed
    THEN [client |-> Nil, err |-> "could not contact Ironic API: timeout reached",
          up |-> ironicUp, failed |-> ironicFailed, crash |-> FALSE]
    ELSE IF ironic = Nil
    THEN [client |-> Nil, err |-> "panic: nil pointer dereference",
          up |-> ironicUp, failed |-> ironicFailed, crash |-> TRUE]
    ELSE IF poll = "timeout"
    THEN [client |-> Nil, err |-> "could not contact Ironic API: context deadline exceeded",
          up |-> ironicUp, failed |-> TRUE, crash |-> FALSE]
    ELSE [client |-> ironic,
          err |-> IF poll = "late" THEN "context deadline exceeded" ELSE NoErr,
          up |-> TRUE, failed |-> ironicFailed, crash |-> FALSE]

(***************************************************************************)
(* Node Resolver: getNodeByIP.  env is what the Ironic API does during the *)
(* call: env.poll (the outcome of readiness polling, if the call polls),   *)
(* env.list ("ok", "list_error" or "extract_error"), and env.getFails (the *)
(* positions of the listing whose detail fetch or decoding fails).         *)
(***************************************************************************)

ListOutcomes == {"ok", "list_error", "extract_error"}

\* the loop of getNodeByIP over allNodes from position i on
RECURSIVE scanNodes(_, _, _, _)
scanNodes(allNodes, i, getFails, clientIP) ==
    IF i > Len(allNodes) THEN [err |-> "no node found for IP", node |-> Nil]
    ELSE IF i \in getFails THEN scanNodes(allNodes, i + 1, getFails, clientIP)
    ELSE IF nodeHasIP(allNodes[i], clientIP) THEN [err |-> NoErr, node |-> allNodes[i]]
    ELSE scanNodes(allNodes, i + 1, getFails, clientIP)

Reverse(seq) == [i \in 1..Len(seq) |-> seq[Len(seq) + 1 - i]]

\* getNodeByIP, were it to keep the last match of the listing
getNodeByIPLastMatch(clientIP, env) ==
    With(GetIronicClient(env.poll), LAMBDA c :
        IF c.crash THEN [err |-> c.err, node |-> Nil, panic |-> TRUE]
        ELSE IF c.err # NoErr
        THEN [err |-> "failed to get ironic client", node |-> Nil, panic |-> FALSE]
        ELSE IF c.client = Nil
        THEN [err |-> "panic: nil pointer dereference", node |-> Nil, panic |-> TRUE]
        ELSE IF env.list = "list_error"
        THEN [err |-> "failed to list nodes", node |-> Nil, panic |-> FALSE]
        ELSE IF env.list = "extract_error"
        THEN [err |-> "failed to extract nodes", node |-> Nil, panic |-> FALSE]
        ELSE With(scanNodes(Reverse(ironicNodes), 1, {}, clientIP), LAMBDA found :
                 [err |-> found.err, node |-> found.node, panic |-> FALSE]))

\* the loop of getNodeByIP, were a failed detail fetch to end it with an error
RECURSIVE scanNodesFailFast(_, _, _, _)
scanNodesFailFast(allNodes, i, getFails, clientIP) ==
    IF i > Len(allNodes) THEN [err |-> "no node found for IP", node |-> Nil]
    ELSE IF i \in getFails THEN [err |-> "failed to get node", node |-> Nil]
    ELSE IF nodeHasIP(allNodes[i], clientIP) THEN [err |-> NoErr, node |-> allNodes[i]]
    ELSE scanNodesFailFast(allNodes, i + 1, getFails, clientIP)

\* getNodeByIP with that loop
getNodeByIPFailFast(clientIP, env) ==
    With(GetIronicClient(env.poll), LAMBDA c :
        IF c.crash THEN [err |-> c.err, node |-> Nil, panic |-> TRUE]
        ELSE IF c.err # NoErr
        THEN [err |-> "failed to get ironic client", node |-> Nil, panic |-> FALSE]
        ELSE IF c.client = Nil
        THEN [err |-> "panic: nil pointer dereference", node |-> Nil, panic |-> TRUE]
        ELSE IF env.list = "list_error"
        THEN [err |-> "failed to list nodes", node |-> Nil, panic |-> FALSE]
        ELSE IF env.list = "extract_error"
        THEN [err |-> "failed to extract nodes", node |-> Nil, panic |-> FALSE]
        ELSE With(scanNodesFailFast(ironicNodes, 1, env.getFails, clientIP), LAMBDA found :
                 [err |-> found.err, node |-> found.node, panic |-> FALSE]))

\* getNodeByIP, were it to go on, after a call that returned a node, from the node
\* behind that one
getNodeByIPResume(clientIP, env) ==
    With(GetIronicClient(env.poll), LAMBDA c :
        IF c.crash THEN [err |-> c.err, node |-> Nil, panic |-> TRUE]
        ELSE IF c.err # NoErr
        THEN [err |-> "failed to get ironic client", node |-> Nil, panic |-> FALSE]
        ELSE IF c.client = Nil
        THEN [err |-> "panic: nil pointer dereference", node |-> Nil, panic |-> TRUE]
        ELSE IF env.list = "list_error"
        THEN [err |-> "failed to list nodes", node |-> Nil, panic |-> FALSE]
        ELSE IF env.list = "extract_error"
        THEN [err |-> "failed to extract nodes", node |-> Nil, panic |-> FALSE]
        ELSE LET at == {k \in 1..Len(ironicNodes) :
                            ret.op = "getNodeByIP" /\ ret.val.node = ironicNodes[k]}
                 from == IF at = {} THEN 1 ELSE 1 + CHOOSE k \in at : TRUE
             IN  With(scanNodes(ironicNodes, from, env.getFails, clientIP), LAMBDA found :
                     [err |-> found.err, node |-> found.node, panic |-> FALSE]))

\* getNodeByIP: [err, node, panic].  A nil handle returned without error is
\* dereferenced (ironicClient.Endpoint): the call panics.
getNodeByIP(clientIP, env) ==
    With(GetIronicClient(env.poll), LAMBDA c :
        IF c.crash THEN [err |-> c.err, node |-> Nil, panic |-> TRUE]
        ELSE IF c.err # NoErr
        THEN [err |-> "failed to get ironic client", node |-> Nil, panic |-> FALSE]
        ELSE IF c.client = Nil
        THEN [err |-> "panic: nil pointer dereference", node |-> Nil, panic |-> TRUE]
        ELSE IF env.list = "list_error"
        THEN [err |-> "failed to list nodes", node |-> Nil, panic |-> FALSE]
        ELSE IF env.list = "extract_error"
        THEN [err |-> "failed to extract nodes", node |-> Nil, panic |-> FALSE]
        ELSE With(scanNodes(ironicNodes, 1, env.getFails, clientIP), LAMBDA found :
                 [err |-> found.err, node |-> found.node, panic |-> FALSE]))

(***************************************************************************)
(* Responses.  A response is [status, ctype, body, panic]; a handler that  *)
(* panics writes nothing (net/http recovers the panic and drops the        *)
(* connection).  Writes to the ResponseWriter are taken to succeed, and    *)
(* the documents built here always encode, so the error branches of        *)
(* writeJSONResponse and writeTextResponse are not taken.                  *)
(***************************************************************************)

\* http.Error, were the handlers to pass it the message followed by the error text
httpErrorWithDetail(msg, code) ==
    [status |-> code, ctype |-> "text/plain; charset=utf-8",
     body |-> [kind |-> "text", val |-> msg \o <<":", " ", "e", "r", "r", "\n">>],
     panic |-> FALSE]

\* http.Error
httpError(msg, code) ==
    [status |-> code, ctype |-> "text/plain; charset=utf-8",
     body |-> [kind |-> "text", val |-> msg \o <<"\n">>], panic |-> FALSE]

\* writeJSONResponse: doc is the JSON value the encoder writes (followed by a newline)
writeJSONResponse(doc) ==
    [status |-> 200, ctype |-> "application/json",
     body |-> [kind |-> "json", val |-> doc], panic |-> FALSE]

\* writeTextResponse
writeTextResponse(data) ==
    [status |-> 200, ctype |-> "text/plain",
     body |-> [kind |-> "text", val |-> data], panic |-> FALSE]

PanicResponse ==
    [status |-> 0, ctype |-> "", body |-> [kind |-> "none", val |-> <<>>], panic |-> TRUE]

\* a map[string]string as a JSON object
EncodeStringMap(m) == JObj([k \in DOMAIN m |-> JStr(m[k])])

\* json encoding of metadata.MetaData by its field tags: omitempty drops empty
\* strings, empty maps and slices and the zero launch_index
EncodeMetaData(md) ==
    LET present == {K_uuid, K_instance_type, K_creation_time}
                   \cup (IF md.Name # <<>> THEN {K_name} ELSE {})
                   \cup (IF md.Hostname # <<>> THEN {K_hostname} ELSE {})
                   \cup (IF md.LaunchIndex # 0 THEN {K_launch_index} ELSE {})
                   \cup (IF DOMAIN md.PublicKeys # {} THEN {K_public_keys} ELSE {})
                   \cup (IF DOMAIN md.Meta # {} THEN {K_meta} ELSE {})
                   \cup (IF md.ProjectID # <<>> THEN {K_project_id} ELSE {})
    IN  JObj([k \in present |->
                CASE k = K_uuid          -> JStr(md.UUID)
                  [] k = K_name          -> JStr(md.Name)
                  [] k = K_hostname      -> JStr(md.Hostname)
                  [] k = K_launch_index  -> JNum(md.LaunchIndex)
                  [] k = K_public_keys   -> EncodeStringMap(md.PublicKeys)
                  [] k = K_meta          -> EncodeStringMap(md.Meta)
                  [] k = K_project_id    -> JStr(md.ProjectID)
                  [] k = K_creation_time -> JStr(md.CreationTime)
                  [] k = K_instance_type -> JStr(md.InstanceType)])

\* the members of object m that omitempty keeps
OmitEmpty(m) ==
    [k \in {n \in DOMAIN m : m[n] \notin {JStr(<<>>), JNum(0)}} |-> m[k]]

\* json encoding of metadata.NetworkData (a nil slice, which encoding/json writes
\* as null, is written like an empty one)
EncodeNetworkData(nd) ==
    LET links == [i \in 1..Len(nd.Links) |->
                    JObj((K_id :> JStr(nd.Links[i].ID)) @@ (K_type :> JStr(nd.Links[i].Type))
                         @@ OmitEmpty(K_mtu :> JNum(nd.Links[i].MTU)))]
        nets  == [i \in 1..Len(nd.Networks) |->
                    JObj((K_link :> JStr(nd.Networks[i].Link))
                         @@ (K_type :> JStr(nd.Networks[i].Type))
                         @@ OmitEmpty((K_id :> JStr(nd.Networks[i].ID))
                                      @@ (K_ip_address :> JStr(nd.Networks[i].IPAddress))))]
        svcs  == [i \in 1..Len(nd.Services) |->
                    JObj((K_type :> JStr(nd.Services[i].Type))
                         @@ (K_address :> JStr(nd.Services[i].Address)))]
    IN  JObj((K_links :> JArr(links)) @@ (K_networks :> JArr(nets))
             @@ (IF Len(nd.Services) > 0 THEN K_services :> JArr(svcs) ELSE EmptyMap))

(***************************************************************************)
(* Handlers.  ctx is the request context: [hasIP, clientIP].               *)
(***************************************************************************)

\* getClientIPFromContext fails exactly when ctx.hasIP is FALSE

handleOpenStackRoot == writeJSONResponse(JArr(<<JStr(S_latest)>>))

handleLatestRoot ==
    writeJSONResponse(JArr(<<JStr(S_meta_data_json), JStr(S_network_data_json),
                             JStr(S_user_data), JStr(S_vendor_data_json),
                             JStr(S_vendor_data2_json)>>))

\* handleMetaData, were a config-drive that fails extraction answered with 500
handleMetaDataStrict(ctx, env) ==
    IF ~ctx.hasIP THEN httpError(S_InternalServerError, 500)
    ELSE With(getNodeByIP(ctx.clientIP, env), LAMBDA res :
             IF res.panic THEN PanicResponse
             ELSE IF res.err # NoErr THEN httpError(S_NodeNotFound, 404)
             ELSE IF extractFromConfigDrive(res.node).err # NoErr
             THEN httpError(S_InternalServerError, 500)
             ELSE writeJSONResponse(EncodeMetaData(buildMetaData(res.node))))

handleMetaData(ctx, env) ==
    IF ~ctx.hasIP THEN httpError(S_InternalServerError, 500)
    ELSE With(getNodeByIP(ctx.clientIP, env), LAMBDA res :
             IF res.panic THEN PanicResponse
             ELSE IF res.err # NoErr THEN httpError(S_NodeNotFound, 404)
             ELSE writeJSONResponse(EncodeMetaData(buildMetaData(res.node))))

\* handleNetworkData, were it to answer a failed resolution with 500
handleNetworkDataError500(ctx, env) ==
    IF ~ctx.hasIP THEN httpError(S_InternalServerError, 500)
    ELSE With(getNodeByIP(ctx.clientIP, env), LAMBDA res :
             IF res.panic THEN PanicResponse
             ELSE IF res.err # NoErr THEN httpError(S_InternalServerError, 500)
             ELSE writeJSONResponse(EncodeNetworkData(buildNetworkData(res.node))))

handleNetworkData(ctx, env) ==
    IF ~ctx.hasIP THEN httpError(S_InternalServerError, 500)
    ELSE With(getNodeByIP(ctx.clientIP, env), LAMBDA res :
             IF res.panic THEN PanicResponse
             ELSE IF res.err # NoErr THEN httpError(S_NodeNotFound, 404)
             ELSE writeJSONResponse(EncodeNetworkData(buildNetworkData(res.node))))

\* handleUserData, were empty user data served as an empty 200 response
handleUserDataEmpty200(ctx, env) ==
    IF ~ctx.hasIP THEN httpError(S_InternalServerError, 500)
    ELSE With(getNodeByIP(ctx.clientIP, env), LAMBDA res :
             IF res.panic THEN PanicResponse
             ELSE IF res.err # NoErr THEN httpError(S_NodeNotFound, 404)
             ELSE writeTextResponse(getUserData(res.node)))

handleUserData(ctx, env) ==
    IF ~ctx.hasIP THEN httpError(S_InternalServerError, 500)
    ELSE With(getNodeByIP(ctx.clientIP, env), LAMBDA res :
             IF res.panic THEN PanicResponse
             ELSE IF res.err # NoErr THEN httpError(S_NodeNotFound, 404)
             ELSE With(getUserData(res.node), LAMBDA userData :
                      IF userData = <<>>
                      THEN httpError(S_UserDataNotFound, 404)
                      ELSE writeTextResponse(userData)))

handleVendorData ==
    writeJSONResponse(JObj(S_ironic :> JObj(S_version :> JStr(S_1_0))))

handleVendorData2 ==
    writeJSONResponse(
        JObj(S_static :> JObj(S_ironic_metadata :> JObj(S_version :> JStr(S_1_0)))))

handleEC2Root == writeTextResponse(S_latest)

handleEC2Latest == writeTextResponse(S_meta_data_dir \o <<"\n">> \o S_user_data_ec2)

handleEC2MetaData(ctx, env) ==
    IF ~ctx.hasIP THEN httpError(S_InternalServerError, 500)
    ELSE With(getNodeByIP(ctx.clientIP, env), LAMBDA res :
             IF res.panic THEN PanicResponse
             ELSE IF res.err # NoErr THEN httpError(S_NodeNotFound, 404)
             ELSE writeTextResponse(
                      S_instance_id \o <<"\n">> \o res.node.UUID \o <<"\n">>
                      \o S_hostname \o <<"\n">> \o getNodeHostname(res.node) \o <<"\n">>
                      \o S_local_ipv4 \o <<"\n">> \o ctx.clientIP))

\* Routes: the handler registered for each path (every route is GET only)
Routes ==
    [p \in {"/openstack", "/openstack/", "/openstack/latest", "/openstack/latest/",
            "/openstack/latest/meta_data.json", "/openstack/latest/network_data.json",
            "/openstack/latest/user_data", "/openstack/latest/vendor_data.json",
            "/openstack/latest/vendor_data2.json", "/", "/latest", "/latest/",
            "/latest/meta-data", "/latest/meta-data/", "/latest/user-data"} |->
        CASE p \in {"/openstack", "/openstack/"} -> "handleOpenStackRoot"
          [] p \in {"/openstack/latest", "/openstack/latest/"} -> "handleLatestRoot"
          [] p = "/openstack/latest/meta_data.json" -> "handleMetaData"
          [] p = "/openstack/latest/network_data.json" -> "handleNetworkData"
          [] p \in {"/openstack/latest/user_data", "/latest/user-data"} -> "handleUserData"
          [] p = "/openstack/latest/vendor_data.json" -> "handleVendorData"
          [] p = "/openstack/latest/vendor_data2.json" -> "handleVendorData2"
          [] p = "/" -> "handleEC2Root"
          [] p \in {"/latest", "/latest/"} -> "handleEC2Latest"
          [] p \in {"/latest/meta-data", "/latest/meta-data/"} -> "handleEC2MetaData"]

\* clientIPMiddleware, were it to ignore the proxy headers
clientIPMiddlewarePeerOnly(r) ==
    [hasIP |-> TRUE, clientIP |-> SplitHostPort(r.remoteAddr).host]

\* clientIPMiddleware: the context a routed request reaches its handler with
clientIPMiddleware(r) == [hasIP |-> TRUE, clientIP |-> getClientIP(r)]

\* the context of a handler that is called without the middleware
NoContext == [hasIP |-> FALSE, clientIP |-> <<>>]

(***************************************************************************)
(* The inputs of the model                                                 *)
(***************************************************************************)

\* the most nodes the Ironic collection holds
MaxNodes == 2

\* client addresses: IPA is a proper substring of IPC
IPA == <<"1", ".", "1">>
IPB == <<"1", ".", "2">>
IPC == <<"1", ".", "1", "2">>
IPNone == <<"9", ".", "9">>

\* "s" as it is written in a JSON text
Quote(s) == <<"\"">> \o s \o <<"\"">>

\* a key that is not set in a map
Absent == [kind |-> "absent", val |-> <<>>]
Opt(k, v) == IF v = Absent THEN EmptyMap ELSE k :> v

Node(uuid, name, properties, driverInfo, instanceInfo) ==
    [UUID |-> uuid, Name |-> name, Owner |-> <<"p", "r", "j">>,
     CreatedAt |-> <<"2", "0", "2", "5">>, Properties |-> properties,
     DriverInfo |-> driverInfo, InstanceInfo |-> instanceInfo]

UD_cd == <<"#", "c", "d">>
UD_ii == <<"#", "i", "i">>
UD_js == <<"#", "j", "s">>

\* instance_info.configdrive values: JSON texts, an ISO path, objects
CD_JSONText == JStr(<<"{">> \o Quote(K_user_data) \o <<":">> \o Quote(UD_js) \o <<"}">>)
CD_JSONEmpty == JStr(<<"{", " ", "}">>)
CD_BadJSON == JStr(<<"{", "x">>)
CD_ISO == JStr(<<"/", "c", "d", ".", "i", "s", "o">>)

NetworkDataFor(ip) ==
    JObj((K_links :> JArr(<<JObj((K_id :> JStr(<<"e", "1">>))
                                 @@ (K_type :> JStr(<<"v", "i", "f">>))
                                 @@ (K_mtu :> JNum(9000)))>>))
         @@ (K_networks :> JArr(<<JObj((K_id :> JStr(<<"n", "1">>))
                                       @@ (K_link :> JStr(<<"e", "1">>))
                                       @@ (K_type :> JStr(<<"i", "p", "v", "4">>))
                                       @@ (K_ip_address :> JStr(ip)))>>)))

MetaDataObj == JObj((K_hostname :> JStr(<<"h", "c", "d">>))
                    @@ (K_instance_type :> JStr(<<"b", "m">>)))

KeysObj == JObj((<<"k", "1">> :> JStr(<<"s", "s", "h", "1">>))
                @@ (<<"k", "2">> :> JNum(7)))

CDKeysObj == JObj(<<"k", "c">> :> JStr(<<"s", "s", "h", "c">>))

PropsObj == (<<"m", "e", "m">> :> JStr(<<"8", "1", "9", "2">>))
            @@ (<<"c", "p", "u", "s">> :> JStr(<<"4">>))
            @@ (<<"d", "i", "s", "k">> :> JNum(100))

\* the nodes the Ironic collection is drawn from
NodeA == Node(<<"u", "-", "a">>, <<"a">>, PropsObj, EmptyMap,
              (K_configdrive :> JObj((K_network_data :> NetworkDataFor(IPA))
                                     @@ (K_user_data :> JStr(UD_cd))
                                     @@ (K_meta_data :> MetaDataObj)
                                     @@ (K_public_keys :> CDKeysObj)))
              @@ (K_user_data :> JStr(UD_ii)) @@ (K_public_keys :> KeysObj))

NodeB == Node(<<"u", "-", "b">>, <<>>, PropsObj, EmptyMap,
              (K_fixed_ips :> JArr(<<JObj(K_ip_address :> JNum(1)),
                                     JObj(K_ip_address :> JStr(IPB))>>))
              @@ (K_user_data :> JStr(UD_ii)) @@ (K_public_keys :> KeysObj))

NodeC == Node(<<"u", "-", "c">>, <<"n", "-">> \o IPC, EmptyMap, EmptyMap,
              (K_configdrive :> CD_ISO) @@ (K_user_data :> JNum(5)))

NodeD == Node(<<"u", "-", "d">>, <<"d">>, EmptyMap,
              K_deploy_ramdisk_options :>
                  JObj(K_ipa_api_url :> JStr(<<"h", ":", "/", "/">> \o IPB \o <<":", "9">>)),
              K_configdrive :> CD_JSONText)

NodeCatalogue == {NodeA, NodeB, NodeC, NodeD}

\* the driver_info key that the README and scripts/create-test-node.sh set
K_deploy_ramdisk_address == <<"d", "e", "p", "l", "o", "y", "_", "r", "a", "m", "d", "i", "s", "k", "_", "a", "d", "d", "r", "e", "s", "s">>

\* the node scripts/create-test-node.sh enrolls for client IP ip: its name holds no
\* address, its instance_info has network_data, user_data and public_keys and no
\* configdrive, its driver_info has deploy_ramdisk_address
ScriptNode(ip) ==
    Node(<<"u", "-", "s">>, <<"t", "-", "0", "1">>, PropsObj,
         K_deploy_ramdisk_address :> JStr(ip),
         (K_user_data :> JStr(UD_ii)) @@ (K_network_data :> NetworkDataFor(ip))
             @@ (K_public_keys :> KeysObj))

\* the nodes and addresses nodeHasIP is applied to directly
MatchInputs ==
    { [kind |-> "match", node |-> n, ip |-> ip] :
        n \in NodeCatalogue \cup {ScriptNode(IPA), ScriptNode(IPC)},
        ip \in {IPA, IPB, IPC, IPNone} }

\* request headers and peer addresses of the routed requests
HeaderCases ==
    { [xff |-> IPA \o <<",", " ">> \o IPB, xri |-> IPNone, remoteAddr |-> IPNone \o <<":", "8">>],
      [xff |-> <<>>, xri |-> IPB, remoteAddr |-> IPNone \o <<":", "8">>],
      [xff |-> <<>>, xri |-> <<>>, remoteAddr |-> IPC \o <<":", "8">>],
      [xff |-> <<" ", ",">> \o IPA, xri |-> IPA, remoteAddr |-> IPA \o <<":", "8">>],
      [xff |-> <<" ">> \o IPNone \o <<" ">>, xri |-> <<>>, remoteAddr |-> IPA \o <<":", "8">>] }

\* the configured polling timeouts (seconds); 0 is the zero value
Timeouts == {0, 30}

NoReq == [handler |-> "none"]
NoResp == [status |-> -1]
NoArg == [kind |-> "none"]
NotCalled == [op |-> "none"]
NoEnv == [poll |-> "ready", list |-> "ok", getFails |-> {}]

\* whether a call of GetIronicClient would poll
WouldPoll == ~ironicUp /\ timeout # 0 /\ ~ironicFailed /\ ironic # Nil

\* what the Ironic API may do during one call of getNodeByIP
Envs ==
    { e \in [poll : IF WouldPoll THEN PollOutcomes ELSE {"ready"},
             list : ListOutcomes,
             getFails : SUBSET (1..Len(ironicNodes))] :
        /\ e.list # "ok" => e.getFails = {}
        /\ e.poll # "ready" => e.list = "ok" /\ e.getFails = {} }

\* the nodes the builders are applied to directly: every combination of these
\* config-drive, instance_info and properties values
CDObjects ==
    { JObj(Opt(K_meta_data, md) @@ Opt(K_user_data, ud) @@ Opt(K_network_data, nd)
           @@ Opt(K_public_keys, pk)) :
        md \in {Absent, MetaDataObj, JObj(K_instance_type :> JStr(<<"b", "m">>))},
        ud \in {Absent, JStr(UD_cd), JStr(<<>>), JNum(3)},
        nd \in {Absent, NetworkDataFor(IPA)},
        pk \in {Absent, CDKeysObj, JObj(EmptyMap)} }

ConfigDrives ==
    {Absent, CD_JSONText, CD_JSONEmpty, CD_BadJSON, CD_ISO, JNull, JNum(5)} \cup CDObjects

RenderNodes ==
    { Node(<<"u", "-", "r">>, name, props, EmptyMap,
           Opt(K_configdrive, cd) @@ Opt(K_user_data, ud) @@ Opt(K_public_keys, pk)
           @@ Opt(K_network_data, nd)) :
        name \in {<<>>, <<"r">>},
        props \in {EmptyMap, PropsObj},
        cd \in ConfigDrives,
        ud \in {Absent, JStr(UD_ii), JStr(<<>>), JNum(5)},
        pk \in {Absent, KeysObj, JStr(<<"s", "s", "h">>)},
        nd \in {Absent, NetworkDataFor(IPB)} }

\* the requests getClientIP is applied to directly
ClientRequests ==
    [xff : {<<>>, IPA, IPA \o <<",", " ">> \o IPB, <<" ">> \o IPB \o <<"\t", ",">> \o IPA,
            <<" ", ",">> \o IPA, <<",">>, <<" ">>},
     xri : {<<>>, IPB, <<" ">> \o IPB},
     remoteAddr : {IPC \o <<":", "8">>, <<"[", ":", ":", "1", "]", ":", "8">>,
                   <<"[", "f", "e", ":", ":", "1", "]", ":", "8", "0">>, IPC}]

(***************************************************************************)
(* The DHCP lease file: parseDHCPLeaseFile.  The repository holds its test *)
(* (api/metadata/dhcp_test.go) and not its code; the function is written   *)
(* here from the specification: scan the lines, split each on white space, *)
(* skip a line with fewer than three fields, return the second field of    *)
(* the first line whose third field is the target IP, fail when there is   *)
(* none.                                                                   *)
(***************************************************************************)

\* the lines of a text: its pieces between line feeds
RECURSIVE SplitLines(_)
SplitLines(s) ==
    IF IndexByte(s, "\n") = 0 THEN <<s>>
    ELSE <<SubSeq(s, 1, IndexByte(s, "\n") - 1)>>
             \o SplitLines(SubSeq(s, IndexByte(s, "\n") + 1, Len(s)))

\* the length of the longest prefix of s without white space
RECURSIVE WordLen(_)
WordLen(s) == IF s = <<>> \/ IsSpace(Head(s)) THEN 0 ELSE 1 + WordLen(Tail(s))

\* strings.Fields: the words of s between runs of white space
RECURSIVE Fields(_)
Fields(s) ==
    IF s = <<>> THEN <<>>
    ELSE IF IsSpace(Head(s)) THEN Fields(Tail(s))
    ELSE <<SubSeq(s, 1, WordLen(s))>> \o Fields(SubSeq(s, WordLen(s) + 1, Len(s)))

E_leaseNotFound == "no DHCP lease found for IP"

\* the scan of the lease lines from position i on
RECURSIVE scanLeases(_, _, _)
scanLeases(lines, i, targetIP) ==
    IF i > Len(lines) THEN [mac |-> <<>>, err |-> E_leaseNotFound]
    ELSE With(Fields(lines[i]), LAMBDA fields :
             IF Len(fields) >= 3 /\ fields[3] = targetIP
             THEN [mac |-> fields[2], err |-> NoErr]
             ELSE scanLeases(lines, i + 1, targetIP))

\* a scan that gives up at the first line that is no lease
RECURSIVE scanLeasesStrict(_, _, _)
scanLeasesStrict(lines, i, targetIP) ==
    IF i > Len(lines) THEN [mac |-> <<>>, err |-> E_leaseNotFound]
    ELSE With(Fields(lines[i]), LAMBDA fields :
             IF Len(fields) # 5 THEN [mac |-> <<>>, err |-> "malformed lease line"]
             ELSE IF fields[3] = targetIP THEN [mac |-> fields[2], err |-> NoErr]
             ELSE scanLeasesStrict(lines, i + 1, targetIP))

\* parseDHCPLeaseFile, were it to abort on a malformed line
parseDHCPLeaseFileStrict(content, targetIP) ==
    scanLeasesStrict(SplitLines(content), 1, targetIP)

\* parseDHCPLeaseFile on the content of the lease file: [mac, err]
parseDHCPLeaseFile(content, targetIP) == scanLeases(SplitLines(content), 1, targetIP)

\* how many lines a lease file has at most
MaxLeaseLines == 3

MAC1 == <<"9", "c", ":", "8", "b">>
MAC2 == <<"9", "c", ":", "8", "a">>

\* what a lease file is made of: leases, and the malformed lines of the test
LeaseEntries ==
    { [kind |-> "lease", mac |-> MAC1, ip |-> IPA, text |-> <<>>],
      [kind |-> "lease", mac |-> MAC2, ip |-> IPC, text |-> <<>>],
      [kind |-> "bad", mac |-> <<>>, ip |-> <<>>,
       text |-> <<"i", "n", "v", "a", "l", "i", "d", " ", "l", "i", "n", "e">>],
      [kind |-> "bad", mac |-> <<>>, ip |-> <<>>,
       text |-> <<"a", "n", "o", "t", "h", "e", "r", " ", "i", "n", "v", "a", "l", "i", "d",
                  " ", "l", "i", "n", "e">>] }

\* the line of a lease file: 'timestamp MAC IP * *' for a lease
LeaseLine(e) ==
    IF e.kind = "lease"
    THEN <<"1", "7", "5", "0", " ">> \o e.mac \o <<" ">> \o e.ip \o <<" ", "*", " ", "*">>
    ELSE e.text

\* the content of the file with these lines, joined by line feeds
RECURSIVE LeaseFileContent(_)
LeaseFileContent(entries) ==
    IF entries = <<>> THEN <<>>
    ELSE IF Len(entries) = 1 THEN LeaseLine(entries[1])
    ELSE LeaseLine(entries[1]) \o <<"\n">> \o LeaseFileContent(Tail(entries))

\* the lease files and target addresses parseDHCPLeaseFile is applied to
LeaseInputs ==
    { [kind |-> "lease", file |-> f, ip |-> ip] :
        f \in UNION { [1..n -> LeaseEntries] : n \in 0..MaxLeaseLines },
        ip \in {IPA, IPC, IPNone} }

(***************************************************************************)
(* The service: requests, the Ironic collection, the gateway               *)
(***************************************************************************)

\* how many goroutines call GetIronicClient concurrently
MaxCallers == 2

Callers == 1 .. MaxCallers

\* nobody holds ironicMux
NoHolder == [holder |-> FALSE]

\* a call of GetIronicClient that has not returned
NoRet == [returned |-> FALSE]

\* a caller that has not called GetIronicClient: no probe issued, no polling started;
\* ready0 and timedOut0 tell what had happened when the call began
NoCall == [polled |-> FALSE, probed |-> FALSE, ready0 |-> FALSE, timedOut0 |-> FALSE,
           ret |-> NoRet]

\* no polling under way: no context, no done channel, no goroutine, no liveness
\* response observed (api), no driver listing issued (queried)
NoPoll == [ctx |-> "none", done |-> FALSE, g |-> "none", ok |-> FALSE,
           api |-> "none", queried |-> FALSE]

\* nothing has happened to the gateway yet
NoHist == [timedOut |-> FALSE, succeeded |-> FALSE, installed |-> FALSE, polls |-> 0]

\* the gateway at rest: nobody is inside GetIronicClient or SetIronicClient
GatewayAtRest ==
    /\ ironicMux = NoHolder
    /\ pc = [c \in Callers |-> "idle"]
    /\ calls = [c \in Callers |-> NoCall]
    /\ polling = [c \in Callers |-> NoPoll]
    /\ setter = "idle"
    /\ hist = NoHist

\* the requests served side by side
MaxRequests == 2

Requests == 1 .. MaxRequests

\* a request that is not being served: the locals of its getNodeByIP
NoFlight == [pc |-> "idle", clientIP |-> <<>>, allNodes |-> <<>>, i |-> 0, res |-> NotCalled]

\* no request is being served side by side with another
RequestsAtRest == inflight = [q \in Requests |-> NoFlight]

Init ==
    /\ ironicNodes = <<>>
    /\ ironic \in {Nil, Client}
    /\ ironicUp = FALSE
    /\ ironicFailed = FALSE
    /\ timeout \in Timeouts
    /\ crashed = FALSE
    /\ req = NoReq
    /\ resp = NoResp
    /\ lookup = NotCalled
    /\ arg = NoArg
    /\ ret = NotCalled
    /\ GatewayAtRest
    /\ RequestsAtRest

\* the process runs and no request is being served
Idle == ~crashed /\ req = NoReq

PathsOf(h) == {p \in DOMAIN Routes : Routes[p] = h}

\* the GET requests the router dispatches to handler h, with what the Ironic API
\* does while each is served
Routed(h, envs) ==
    { [handler |-> h, via |-> "router", method |-> "GET", path |-> p, xff |-> c.xff,
       xri |-> c.xri, remoteAddr |-> c.remoteAddr, env |-> e] :
        p \in PathsOf(h), c \in HeaderCases, e \in envs }

\* handler h called as a function, without the router and its middleware
Direct(h) ==
    { [handler |-> h, via |-> "direct", method |-> "GET", path |-> "", xff |-> <<>>,
       xri |-> <<>>, remoteAddr |-> IPA \o <<":", "8">>, env |-> NoEnv] }

Context(r) == IF r.via = "router" THEN clientIPMiddleware(r) ELSE NoContext

\* a node-dependent handler serves r: the response, and what GetIronicClient did
ServeNode(r, ctx, response) ==
    /\ Idle
    /\ req' = r
    /\ resp' = response
    /\ lookup' = IF ctx.hasIP THEN getNodeByIP(ctx.clientIP, r.env) ELSE NotCalled
    /\ With(GetIronicClient(r.env.poll), LAMBDA c :
            /\ ironicUp' = IF ctx.hasIP THEN c.up ELSE ironicUp
            /\ ironicFailed' = IF ctx.hasIP THEN c.failed ELSE ironicFailed
            /\ crashed' = (ctx.hasIP /\ c.crash))
    /\ UNCHANGED <<ironicNodes, ironic, timeout, arg, ret, gwVars, inflight>>

\* a static handler serves r
ServeStatic(r, response) ==
    /\ Idle
    /\ req' = r
    /\ resp' = response
    /\ lookup' = NotCalled
    /\ UNCHANGED <<ironicNodes, ironic, ironicUp, ironicFailed, timeout, crashed, arg, ret, gwVars, inflight>>

HandleMetaData ==
    \E r \in Routed("handleMetaData", Envs) \cup Direct("handleMetaData") :
        With(Context(r), LAMBDA ctx : ServeNode(r, ctx, handleMetaData(ctx, r.env)))

HandleNetworkData ==
    \E r \in Routed("handleNetworkData", Envs) \cup Direct("handleNetworkData") :
        With(Context(r), LAMBDA ctx : ServeNode(r, ctx, handleNetworkData(ctx, r.env)))

HandleUserData ==
    \E r \in Routed("handleUserData", Envs) \cup Direct("handleUserData") :
        With(Context(r), LAMBDA ctx : ServeNode(r, ctx, handleUserData(ctx, r.env)))

HandleEC2MetaData ==
    \E r \in Routed("handleEC2MetaData", Envs) \cup Direct("handleEC2MetaData") :
        With(Context(r), LAMBDA ctx : ServeNode(r, ctx, handleEC2MetaData(ctx, r.env)))

HandleOpenStackRoot ==
    \E r \in Routed("handleOpenStackRoot", {NoEnv}) \cup Direct("handleOpenStackRoot") :
        ServeStatic(r, handleOpenStackRoot)

HandleLatestRoot ==
    \E r \in Routed("handleLatestRoot", {NoEnv}) \cup Direct("handleLatestRoot") :
        ServeStatic(r, handleLatestRoot)

HandleVendorData ==
    \E r \in Routed("handleVendorData", {NoEnv}) \cup Direct("handleVendorData") :
        ServeStatic(r, handleVendorData)

\* handleVendorData2, were it to resolve the node of the client first
HandleVendorData2ViaNode ==
    \E r \in Routed("handleVendorData2", Envs) :
        With(Context(r), LAMBDA ctx : ServeNode(r, ctx, handleVendorData2))

HandleVendorData2 ==
    \E r \in Routed("handleVendorData2", {NoEnv}) \cup Direct("handleVendorData2") :
        ServeStatic(r, handleVendorData2)

HandleEC2Root ==
    \E r \in Routed("handleEC2Root", {NoEnv}) \cup Direct("handleEC2Root") :
        ServeStatic(r, handleEC2Root)

HandleEC2Latest ==
    \E r \in Routed("handleEC2Latest", {NoEnv}) \cup Direct("handleEC2Latest") :
        ServeStatic(r, handleEC2Latest)

\* the response has been written and the request is over
Finish ==
    /\ ~crashed
    /\ req # NoReq
    /\ req' = NoReq
    /\ resp' = NoResp
    /\ lookup' = NotCalled
    /\ UNCHANGED <<ironicNodes, ironic, ironicUp, ironicFailed, timeout, crashed, arg, ret, gwVars, inflight>>

\* SetIronicClient
SetIronicClient ==
    /\ Idle
    /\ ironic' = Client
    /\ ironicUp' = TRUE
    /\ UNCHANGED <<ironicNodes, ironicFailed, timeout, crashed, req, resp, lookup,
                       arg, ret, gwVars, inflight>>

\* the Ironic API enrolls a node: it is listed last
EnrollNode ==
    \E n \in NodeCatalogue :
        /\ Idle
        /\ Len(ironicNodes) < MaxNodes
        /\ \A i \in 1..Len(ironicNodes) : ironicNodes[i].UUID # n.UUID
        /\ ironicNodes' = Append(ironicNodes, n)
        /\ UNCHANGED <<ironic, ironicUp, ironicFailed, timeout, crashed, req, resp, lookup,
                       arg, ret, gwVars, inflight>>

\* the Ironic API deletes a node
DeleteNode ==
    \E i \in 1..Len(ironicNodes) :
        /\ Idle
        /\ ironicNodes' = SubSeq(ironicNodes, 1, i - 1)
                          \o SubSeq(ironicNodes, i + 1, Len(ironicNodes))
        /\ UNCHANGED <<ironic, ironicUp, ironicFailed, timeout, crashed, req, resp, lookup,
                       arg, ret, gwVars, inflight>>

Next ==
    \/ HandleMetaData
    \/ HandleNetworkData
    \/ HandleUserData
    \/ HandleEC2MetaData
    \/ HandleOpenStackRoot
    \/ HandleLatestRoot
    \/ HandleVendorData
    \/ HandleVendorData2
    \/ HandleEC2Root
    \/ HandleEC2Latest
    \/ Finish
    \/ SetIronicClient
    \/ EnrollNode
    \/ DeleteNode

Spec == Init /\ [][Next]_vars

(***************************************************************************)
(* The functions applied directly to one input, as the unit tests do       *)
(***************************************************************************)

\* the collections getNodeByIP is applied to directly: the listings of up to MaxNodes
\* nodes of the catalogue
Listings ==
    { l \in UNION {[1..n -> NodeCatalogue] : n \in 0..MaxNodes} :
        \A i, j \in 1..Len(l) : i # j => l[i].UUID # l[j].UUID }

\* the client IPs getNodeByIP is applied to directly
ResolveInputs == { [kind |-> "resolve", ip |-> ip] : ip \in {IPA, IPB, IPNone, <<>>} }

\* Functions of a node, a request or a lease file are applied on a Handler with the
\* zero-value Clients of the tests; getNodeByIP is applied on a Handler whose Clients
\* holds a client, ready or not, before a collection that stays as it is.
UnitInit ==
    /\ arg \in {[kind |-> "node", node |-> n] : n \in RenderNodes}
               \cup {[kind |-> "request", r |-> r] : r \in ClientRequests}
               \cup MatchInputs
               \cup LeaseInputs
               \cup ResolveInputs
    /\ IF arg.kind = "resolve"
       THEN /\ ironicNodes \in Listings
            /\ ironic = Client
            /\ ironicUp \in BOOLEAN
            /\ timeout \in Timeouts
       ELSE /\ ironicNodes = <<>>
            /\ ironic = Nil
            /\ ironicUp = FALSE
            /\ timeout = 0
    /\ ironicFailed = FALSE
    /\ crashed = FALSE
    /\ req = NoReq
    /\ resp = NoResp
    /\ lookup = NotCalled
    /\ ret = NotCalled
    /\ GatewayAtRest
    /\ RequestsAtRest

Call(kind, op, val) ==
    /\ arg.kind = kind
    /\ ret = NotCalled
    /\ ret' = [op |-> op, val |-> val]
    /\ UNCHANGED <<ironicNodes, ironic, ironicUp, ironicFailed, timeout, crashed, req, resp,
                 lookup, arg, gwVars, inflight>>

CallExtractFromConfigDrive ==
    Call("node", "extractFromConfigDrive", extractFromConfigDrive(arg.node))

CallBuildMetaData == Call("node", "buildMetaData", buildMetaData(arg.node))

CallBuildNetworkData == Call("node", "buildNetworkData", buildNetworkData(arg.node))

CallGetUserData == Call("node", "getUserData", getUserData(arg.node))

CallGetClientIP == Call("request", "getClientIP", getClientIP(arg.r))

CallNodeHasIP == Call("match", "nodeHasIP", nodeHasIP(arg.node, arg.ip))

CallParseDHCPLeaseFile ==
    Call("lease", "parseDHCPLeaseFile",
         parseDHCPLeaseFile(LeaseFileContent(arg.file), arg.ip))

\* getNodeByIP is called: what it returns, what the Ironic API did during the call,
\* and what GetIronicClient did to the gateway
Resolve(op, first) ==
    /\ arg.kind = "resolve"
    /\ ~crashed
    /\ \E env \in Envs :
           /\ ret' = [op |-> op, val |-> getNodeByIP(arg.ip, env), env |-> env,
                      first |-> first]
           /\ With(GetIronicClient(env.poll), LAMBDA c :
                   /\ ironicUp' = c.up
                   /\ ironicFailed' = c.failed
                   /\ crashed' = c.crash)
    /\ UNCHANGED <<ironicNodes, ironic, timeout, req, resp, lookup, arg, gwVars, inflight>>

CallGetNodeByIP == ret = NotCalled /\ Resolve("getNodeByIP", NotCalled)

\* getNodeByIP is called once more, for the same client IP
CallGetNodeByIPAgain ==
    /\ ret.op = "getNodeByIP"
    /\ Resolve("getNodeByIP again", [op |-> ret.op, val |-> ret.val, env |-> ret.env])

UnitNext ==
    \/ CallGetNodeByIP
    \/ CallGetNodeByIPAgain
    \/ CallExtractFromConfigDrive
    \/ CallBuildMetaData
    \/ CallBuildNetworkData
    \/ CallGetUserData
    \/ CallGetClientIP
    \/ CallNodeHasIP
    \/ CallParseDHCPLeaseFile

UnitSpec == UnitInit /\ [][UnitNext]_vars


(***************************************************************************)
(* The gateway step by step: Clients.GetIronicClient with its mutex, its   *)
(* polling goroutine and its timeout, and Clients.SetIronicClient, called  *)
(* from several goroutines                                                 *)
(***************************************************************************)

\* what the liveness probe of waitForAPI can observe
APIOutcomes == {"200", "204", "503", "error"}

\* what the driver listing of waitForConductor can observe: an error, or a driver count
ConductorOutcomes == {"error", "0", "1"}

\* fmt.Errorf("could not contact Ironic API: timeout reached")
E_timeoutReached == "could not contact Ironic API: timeout reached"

\* fmt.Errorf("could not contact Ironic API: %w", err) around context.DeadlineExceeded
E_timeout == "could not contact Ironic API: context deadline exceeded"

\* ctx.Err() of a context whose deadline has passed
E_deadline == "context deadline exceeded"

\* ctx.Err(): nil until the context is done
CtxErr(ctx) == IF ctx = "expired" THEN E_deadline ELSE NoErr

\* what a call hands back, with the connection the gateway held at that moment
Return(client, err, via) ==
    [returned |-> TRUE, client |-> client, err |-> err, via |-> via, held |-> ironic]

GatewayInit ==
    /\ ironicNodes = <<>>
    /\ ironic \in {Nil, Client}
    /\ ironicUp = FALSE
    /\ ironicFailed = FALSE
    /\ timeout \in Timeouts
    /\ crashed = FALSE
    /\ req = NoReq
    /\ resp = NoResp
    /\ lookup = NotCalled
    /\ arg = NoArg
    /\ ret = NotCalled
    /\ GatewayAtRest
    /\ RequestsAtRest

\* a goroutine calls GetIronicClient
GwCall(c) ==
    /\ ~crashed
    /\ pc[c] = "idle"
    /\ pc' = [pc EXCEPT ![c] = "lock"]
    /\ calls' = [calls EXCEPT ![c] =
                    [polled |-> FALSE, probed |-> FALSE,
                     ready0 |-> hist.succeeded \/ hist.installed \/ timeout = 0,
                     timedOut0 |-> hist.timedOut,
                     ret |-> NoRet]]
    /\ UNCHANGED <<ironic, ironicUp, ironicFailed, timeout, crashed, svcVars,
                   ironicMux, polling, setter, hist>>

\* a Lock that does not wait for the holder
MutexLockNoWait(c) ==
    ironicMux' = [holder |-> TRUE, caller |-> c]

\* c.ironicMux.Lock(): the caller goes on once nobody holds the mutex
MutexLock(c) ==
    /\ ironicMux = NoHolder
    /\ ironicMux' = [holder |-> TRUE, caller |-> c]

GwLock(c) ==
    /\ ~crashed
    /\ pc[c] = "lock"
    /\ MutexLock(c)
    /\ pc' = [pc EXCEPT ![c] = "check"]
    /\ UNCHANGED <<ironic, ironicUp, ironicFailed, timeout, crashed, svcVars,
                   calls, polling, setter, hist>>

\* a readiness test that forgets the gateways without a timeout
ReadyUpOnly == ironicUp

\* "Ironic is UP, or user didn't ask us to check"
Ready == ironicUp \/ timeout = 0

\* the two early returns of GetIronicClient, or the start of the polling
GwCheck(c) ==
    /\ ~crashed
    /\ pc[c] = "check"
    /\ IF Ready
       THEN /\ calls' = [calls EXCEPT ![c].ret = Return(ironic, NoErr, "cached")]
            /\ hist' = [hist EXCEPT !.succeeded = TRUE]
            /\ pc' = [pc EXCEPT ![c] = "idle"]
            /\ ironicMux' = NoHolder
            /\ UNCHANGED polling
       ELSE IF ironicFailed
       THEN /\ calls' = [calls EXCEPT ![c].ret = Return(Nil, E_timeoutReached, "failed")]
            /\ pc' = [pc EXCEPT ![c] = "idle"]
            /\ ironicMux' = NoHolder
            /\ UNCHANGED <<polling, hist>>
       ELSE /\ calls' = [calls EXCEPT ![c].polled = TRUE]
            /\ polling' = [polling EXCEPT ![c] =
                              [NoPoll EXCEPT !.ctx = "live", !.g = "start"]]
            /\ hist' = [hist EXCEPT !.polls = @ + 1]
            /\ pc' = [pc EXCEPT ![c] = "select"]
            /\ UNCHANGED ironicMux
    /\ UNCHANGED <<ironic, ironicUp, ironicFailed, timeout, crashed, svcVars, setter>>

\* the goroutine starts: waitForAPI(ctx, c.ironic) reads client.Endpoint
GwGoroutine(c) ==
    /\ ~crashed
    /\ polling[c].g = "start"
    /\ IF ironic = Nil
       THEN crashed' = TRUE /\ UNCHANGED polling
       ELSE polling' = [polling EXCEPT ![c].g = "api"] /\ UNCHANGED crashed
    /\ UNCHANGED <<ironic, ironicUp, ironicFailed, timeout, svcVars,
                   ironicMux, pc, calls, setter, hist>>

\* a liveness test that takes every 2xx status
APIReady2xx(status) == status \in {"200", "204"}

\* statusCode == http.StatusOK
APIReady(status) == status = "200"

\* one round of waitForAPI: return when the context is done, else probe the endpoint
GwProbeAPI(c) ==
    /\ ~crashed
    /\ polling[c].g = "api"
    /\ IF polling[c].ctx # "live"
       THEN /\ polling' = [polling EXCEPT ![c].g = "conductor"]
            /\ UNCHANGED calls
       ELSE \E status \in APIOutcomes :
               /\ polling' = [polling EXCEPT
                                 ![c].g = IF APIReady(status) THEN "conductor" ELSE "api",
                                 ![c].api = status]
               /\ calls' = [calls EXCEPT ![c].probed = TRUE]
    /\ UNCHANGED <<ironic, ironicUp, ironicFailed, timeout, crashed, svcVars,
                   ironicMux, pc, setter, hist>>

\* one round of waitForConductor, and close(done) once it returns
GwProbeConductor(c) ==
    /\ ~crashed
    /\ polling[c].g = "conductor"
    /\ IF polling[c].ctx # "live"
       THEN /\ polling' = [polling EXCEPT ![c].g = "finished", ![c].done = TRUE]
            /\ UNCHANGED calls
       ELSE \E drivers \in ConductorOutcomes :
               /\ polling' = IF drivers = "1"
                             THEN [polling EXCEPT ![c].g = "finished", ![c].done = TRUE,
                                                  ![c].ok = TRUE, ![c].queried = TRUE]
                             ELSE [polling EXCEPT ![c].queried = TRUE]
               /\ calls' = [calls EXCEPT ![c].probed = TRUE]
    /\ UNCHANGED <<ironic, ironicUp, ironicFailed, timeout, crashed, svcVars,
                   ironicMux, pc, setter, hist>>

\* a context without a deadline: it never expires
GwTimeoutNever(c) ==
    /\ ~crashed
    /\ polling[c].ctx = "no deadline"
    /\ UNCHANGED vars

\* the deadline of context.WithTimeout passes
GwTimeout(c) ==
    /\ ~crashed
    /\ polling[c].ctx = "live"
    /\ polling' = [polling EXCEPT ![c].ctx = "expired"]
    /\ UNCHANGED <<ironic, ironicUp, ironicFailed, timeout, crashed, svcVars,
                   ironicMux, pc, calls, setter, hist>>

\* a context that is done as soon as a liveness probe has failed
CtxDoneOnFailure(c) ==
    polling[c].ctx = "expired" \/ polling[c].api \in {"503", "error"}

\* <-ctx.Done() is ready: the deadline has passed
CtxDone(c) == polling[c].ctx = "expired"

\* select takes case <-ctx.Done()
GwSelectTimeout(c) ==
    /\ ~crashed
    /\ pc[c] = "select"
    /\ CtxDone(c)
    /\ ironicFailed' = TRUE
    /\ calls' = [calls EXCEPT ![c].ret = Return(Nil, E_timeout, "timeout")]
    /\ hist' = [hist EXCEPT !.timedOut = TRUE]
    /\ pc' = [pc EXCEPT ![c] = "idle"]
    /\ ironicMux' = NoHolder
    /\ UNCHANGED <<ironic, ironicUp, timeout, crashed, svcVars, polling, setter>>

\* select takes case <-done
GwSelectDone(c) ==
    /\ ~crashed
    /\ pc[c] = "select"
    /\ polling[c].done
    /\ ironicUp' = TRUE
    /\ calls' = [calls EXCEPT ![c].ret = Return(ironic, CtxErr(polling[c].ctx), "done")]
    /\ hist' = [hist EXCEPT !.succeeded = @ \/ CtxErr(polling[c].ctx) = NoErr,
                            !.timedOut = @ \/ ~polling[c].ok]
    /\ polling' = [polling EXCEPT ![c].ctx = IF @ = "live" THEN "cancelled" ELSE @]
    /\ pc' = [pc EXCEPT ![c] = "idle"]
    /\ ironicMux' = NoHolder
    /\ UNCHANGED <<ironic, ironicFailed, timeout, crashed, svcVars, setter>>

\* SetIronicClient takes no lock: its two writes land one at a time, in either order.
\* It is called once, as main does; a second call would write the same values.
GwSetWrite(field) ==
    /\ ~crashed
    /\ ~hist.installed
    /\ \/ setter = "idle" /\ setter' = field
       \/ setter \notin {"idle", field} /\ setter' = "idle"
    /\ IF field = "ironic"
       THEN ironic' = Client /\ UNCHANGED ironicUp
       ELSE ironicUp' = TRUE /\ UNCHANGED ironic
    /\ hist' = [hist EXCEPT !.installed = @ \/ setter # "idle"]
    /\ UNCHANGED <<ironicFailed, timeout, crashed, svcVars, ironicMux, pc, calls, polling>>

GatewayNext ==
    \/ \E c \in Callers : GwCall(c)
    \/ \E c \in Callers : GwLock(c)
    \/ \E c \in Callers : GwCheck(c)
    \/ \E c \in Callers : GwGoroutine(c)
    \/ \E c \in Callers : GwProbeAPI(c)
    \/ \E c \in Callers : GwProbeConductor(c)
    \/ \E c \in Callers : GwTimeout(c)
    \/ \E c \in Callers : GwSelectTimeout(c)
    \/ \E c \in Callers : GwSelectDone(c)
    \/ \E field \in {"ironic", "ironicUp"} : GwSetWrite(field)

GatewaySpec == GatewayInit /\ [][GatewayNext]_vars

\* a step of the caller that holds ironicMux: the check, or a branch of the select
HolderStep == \E c \in Callers : GwCheck(c) \/ GwSelectTimeout(c) \/ GwSelectDone(c)

\* the timer of a context fires
TimerStep == \E c \in Callers : GwTimeout(c)

\* What the Go runtime guarantees while the process runs: the goroutine inside the
\* critical section takes its next step, a timer fires once its deadline is reached,
\* and a goroutine waiting in sync.Mutex.Lock gets the mutex when it is unlocked again
\* and again (the mutex hands itself to a starving waiter).  Nothing is assumed of
\* the Ironic API nor of the polling goroutine: the probes may fail for ever.
GatewayFairness ==
    /\ \A c \in Callers : SF_vars(GwLock(c))
    /\ WF_vars(HolderStep)
    /\ WF_vars(TimerStep)

FairGatewaySpec == GatewaySpec /\ GatewayFairness

(***************************************************************************)
(* Requests served side by side.  net/http serves every request in a       *)
(* goroutine of its own: the middleware stores the client IP in the        *)
(* context of the request, and getNodeByIP lists the nodes into a local    *)
(* slice, then fetches the details of each listed node in turn.  The       *)
(* Ironic collection may change between any two of these calls.  The       *)
(* service has been handed its client (main calls SetIronicClient), so     *)
(* that GetIronicClient returns at once.                                   *)
(***************************************************************************)

\* the headers of the requests served side by side
SideHeaders ==
    { [xff |-> IPA \o <<",", " ">> \o IPB, xri |-> IPNone, remoteAddr |-> IPNone \o <<":", "8">>],
      [xff |-> <<>>, xri |-> IPB, remoteAddr |-> IPNone \o <<":", "8">>] }

SideInit ==
    /\ ironicNodes = <<>>
    /\ ironic = Client
    /\ ironicUp = TRUE
    /\ ironicFailed = FALSE
    /\ timeout = 0
    /\ crashed = FALSE
    /\ req = NoReq
    /\ resp = NoResp
    /\ lookup = NotCalled
    /\ arg = NoArg
    /\ ret = NotCalled
    /\ GatewayAtRest
    /\ RequestsAtRest

\* what a step of request q leaves alone
SideUnchanged ==
    UNCHANGED <<ironicNodes, ironic, ironicUp, ironicFailed, timeout, crashed, req, resp,
                lookup, arg, ret, gwVars>>

\* nodes.Get: the details Ironic holds now for the node of that UUID, Nil when it
\* holds none
Detail(uuid) ==
    IF \E k \in 1..Len(ironicNodes) : ironicNodes[k].UUID = uuid
    THEN ironicNodes[CHOOSE k \in 1..Len(ironicNodes) : ironicNodes[k].UUID = uuid]
    ELSE Nil

\* the end of getNodeByIP for a request that found no node
NotFound(f) ==
    [f EXCEPT !.pc = "done", !.res = [err |-> "no node found for IP", node |-> Nil]]

\* clientIPMiddleware: the client IP of request q goes into its context
Middleware(q) ==
    /\ ~crashed
    /\ inflight[q].pc = "idle"
    /\ \E r \in SideHeaders :
           inflight' = [inflight EXCEPT ![q] =
               [NoFlight EXCEPT !.pc = "list", !.clientIP = clientIPMiddleware(r).clientIP]]
    /\ SideUnchanged

\* the listing of getNodeByIP, were a request to take over the slice another
\* request holds
ListNodesShared(q) ==
    /\ inflight[q].pc = "list"
    /\ \E outcome \in ListOutcomes :
        LET held == {inflight[o].allNodes : o \in {o \in Requests : inflight[o].pc = "scan"}}
            allNodes == IF held # {} THEN CHOOSE l \in held : TRUE ELSE ironicNodes
        IN  inflight' = [inflight EXCEPT ![q] =
                IF outcome = "list_error"
                THEN [@ EXCEPT !.pc = "done",
                               !.res = [err |-> "failed to list nodes", node |-> Nil]]
                ELSE IF outcome = "extract_error"
                THEN [@ EXCEPT !.pc = "done",
                               !.res = [err |-> "failed to extract nodes", node |-> Nil]]
                ELSE IF allNodes = <<>> THEN NotFound(@)
                ELSE [@ EXCEPT !.pc = "scan", !.allNodes = allNodes, !.i = 1]]
    /\ SideUnchanged

\* getNodeByIP up to the loop: the client is at hand, nodes.List and
\* nodes.ExtractNodes fill the local slice allNodes
ListNodes(q) ==
    /\ inflight[q].pc = "list"
    /\ GetIronicClient("ready").err = NoErr
    /\ \E outcome \in ListOutcomes :
        inflight' = [inflight EXCEPT ![q] =
            IF outcome = "list_error"
            THEN [@ EXCEPT !.pc = "done",
                           !.res = [err |-> "failed to list nodes", node |-> Nil]]
            ELSE IF outcome = "extract_error"
            THEN [@ EXCEPT !.pc = "done",
                           !.res = [err |-> "failed to extract nodes", node |-> Nil]]
            ELSE IF ironicNodes = <<>> THEN NotFound(@)
            ELSE [@ EXCEPT !.pc = "scan", !.allNodes = ironicNodes, !.i = 1]]
    /\ SideUnchanged

\* one round of the loop of getNodeByIP: nodes.Get of the node at hand, which fails
\* when Ironic does or when the node is gone, then nodeHasIP on its details
GetNode(q) ==
    /\ inflight[q].pc = "scan"
    /\ \E answers \in BOOLEAN :
        LET f == inflight[q]
            node == Detail(f.allNodes[f.i].UUID)
        IN  inflight' = [inflight EXCEPT ![q] =
                IF answers /\ node # Nil /\ nodeHasIP(node, f.clientIP)
                THEN [f EXCEPT !.pc = "done", !.res = [err |-> NoErr, node |-> node]]
                ELSE IF f.i = Len(f.allNodes) THEN NotFound(f)
                ELSE [f EXCEPT !.i = f.i + 1]]
    /\ SideUnchanged

\* the handler has answered and the request is over
Respond(q) ==
    /\ inflight[q].pc = "done"
    /\ inflight' = [inflight EXCEPT ![q] = NoFlight]
    /\ SideUnchanged

SideNext ==
    \/ \E q \in Requests : Middleware(q)
    \/ \E q \in Requests : ListNodes(q)
    \/ \E q \in Requests : GetNode(q)
    \/ \E q \in Requests : Respond(q)
    \/ EnrollNode
    \/ DeleteNode

SideSpec == SideInit /\ [][SideNext]_vars


(***************************************************************************)
(* Properties of the node resolver and of the routes                       *)
(***************************************************************************)

\* v is e without its leading and trailing white space
IsTrimOf(e, v) ==
    \E a \in 1..(Len(e) + 1), b \in 0..Len(e) :
        /\ v = SubSeq(e, a, b)
        /\ \A i \in 1..(a - 1) : IsSpace(e[i])
        /\ \A i \in (b + 1)..Len(e) : IsSpace(e[i])
        /\ a <= b => (~IsSpace(e[a]) /\ ~IsSpace(e[b]))

\* v is the first comma-separated entry of header value h, trimmed
IsFirstEntry(h, v) ==
    \E n \in 0..Len(h) :
        /\ \A i \in 1..n : h[i] # ","
        /\ n = Len(h) \/ h[n + 1] = ","
        /\ IsTrimOf(SubSeq(h, 1, n), v)

FirstForwarded(h) ==
    CHOOSE v \in {SubSeq(h, a, b) : a \in 1..(Len(h) + 1), b \in 0..Len(h)} : IsFirstEntry(h, v)

\* v is the host of peer address addr, "host:port" or "[host]:port"
IsHostOf(addr, v) ==
    \E n \in 1..Len(addr) :
        /\ addr[n] = ":"
        /\ \A i \in (n + 1)..Len(addr) : addr[i] \notin {":", "[", "]"}
        /\ \/ /\ v = SubSeq(addr, 1, n - 1)
              /\ \A i \in 1..Len(v) : v[i] \notin {":", "[", "]"}
           \/ /\ n >= 3
              /\ addr[1] = "["
              /\ addr[n - 1] = "]"
              /\ v = SubSeq(addr, 2, n - 2)
              /\ \A i \in 1..Len(v) : v[i] \notin {"[", "]"}

\* C3: getClientIP returns the trimmed first comma-separated entry of
\* X-Forwarded-For when that header is non-empty; otherwise the value of X-Real-IP
\* when that header is non-empty; otherwise the host part of the peer address,
\* with the port stripped.
C3_ClientIPPriority ==
    (ret # NotCalled /\ ret.op = "getClientIP") =>
        IF arg.r.xff # <<>> THEN IsFirstEntry(arg.r.xff, ret.val)
        ELSE IF arg.r.xri # <<>> THEN ret.val = arg.r.xri
        ELSE (\E v \in {SubSeq(arg.r.remoteAddr, a, b) :
                           a \in 1..Len(arg.r.remoteAddr), b \in 0..Len(arg.r.remoteAddr)} :
                  IsHostOf(arg.r.remoteAddr, v))
             => IsHostOf(arg.r.remoteAddr, ret.val)

\* both headers are set, X-Forwarded-For holds two entries with white space
\* around the first, and the first entry was returned
C3_Witness ==
    /\ ret # NotCalled
    /\ ret.op = "getClientIP"
    /\ arg.r.xff = <<" ">> \o IPB \o <<"\t", ",">> \o IPA
    /\ arg.r.xri = <<" ">> \o IPB
    /\ ret.val = IPB

NodeHandlers == {"handleMetaData", "handleNetworkData", "handleUserData", "handleEC2MetaData"}

\* the request being served reached getNodeByIP, and the Ironic API answered the
\* readiness probes and the listing call of that request
ListingObtained ==
    /\ req # NoReq
    /\ lookup # NotCalled
    /\ ironic # Nil
    /\ ironicUp \/ timeout = 0
    /\ req.env.poll = "ready"
    /\ req.env.list = "ok"

\* the client IP the handler of the request being served passed to getNodeByIP
ResolvedIP == Context(req).clientIP

\* the four signals a node matches a client IP by
MatchesBySignal(node, ip) ==
    \/ configDriveHasIP(node, ip)
    \/ fixedIPsHasIP(node, ip)
    \/ ipaURLHasIP(node, ip)
    \/ nameHasIP(node, ip)

\* the positions of the listing whose node matches ip
Hits(ip) == {i \in 1..Len(ironicNodes) : MatchesBySignal(ironicNodes[i], ip)}

First(S) == CHOOSE i \in S : \A j \in S : i <= j

\* C1: when every detail fetch succeeds, getNodeByIP returns the first node of the
\* listing, in listing order, that matches the client IP by one of the four signals
\* (config-drive network address, fixed_ips address, ipa-api-url substring, node
\* name substring); when no node of the listing matches, it fails with the
\* no-node-found error and with no other error.
C1_FirstMatchInListingOrder ==
    (ListingObtained /\ req.env.getFails = {}) =>
        IF Hits(ResolvedIP) # {}
        THEN /\ lookup.err = NoErr
             /\ ~lookup.panic
             /\ lookup.node = ironicNodes[First(Hits(ResolvedIP))]
        ELSE /\ lookup.err = "no node found for IP"
             /\ ~lookup.panic
             /\ lookup.node = Nil

\* two nodes of the listing match the client IP by different signals and the
\* first of them was returned
C1_Witness ==
    /\ ListingObtained
    /\ req.env.getFails = {}
    /\ Len(ironicNodes) = 2
    /\ nameHasIP(ironicNodes[1], ResolvedIP)
    /\ configDriveHasIP(ironicNodes[2], ResolvedIP)
    /\ lookup.err = NoErr
    /\ lookup.node = ironicNodes[1]

\* C2: GET /openstack/latest/meta_data.json through the router with a non-empty
\* X-Forwarded-For header, the Ironic API answering every call: when the client IP
\* taken from the header matches a node of the listing the response is 200 with a
\* JSON document whose uuid is that node's UUID, and when no node of the listing
\* matches that IP the response is 404.
C2_MetaDataEndToEnd ==
    ( /\ ListingObtained
      /\ req.env.getFails = {}
      /\ req.via = "router"
      /\ req.method = "GET"
      /\ req.path = "/openstack/latest/meta_data.json"
      /\ req.xff # <<>> ) =>
        LET ip == FirstForwarded(req.xff)
        IN  IF Hits(ip) # {}
            THEN /\ resp.status = 200
                 /\ resp.ctype = "application/json"
                 /\ resp.body.kind = "json"
                 /\ resp.body.val.kind = "object"
                 /\ Has(resp.body.val.val, K_uuid)
                 /\ resp.body.val.val[K_uuid] = JStr(ironicNodes[First(Hits(ip))].UUID)
            ELSE resp.status = 404

\* the IP of the header matches the second node of the listing only, and the
\* document carries its UUID
C2_Witness ==
    /\ ListingObtained
    /\ req.via = "router"
    /\ req.path = "/openstack/latest/meta_data.json"
    /\ req.xff = IPA \o <<",", " ">> \o IPB
    /\ Len(ironicNodes) = 2
    /\ Hits(IPA) = {2}
    /\ resp.status = 200
    /\ resp.body.val.val[K_uuid] = JStr(ironicNodes[2].UUID)

\* C4: on the node-dependent routes every failure getNodeByIP reports (gateway
\* acquisition error, listing or extraction error, no matching node) is answered
\* 404 'Node not found'; 500 'Internal Server Error' is answered only when the
\* client IP is missing from the request context.
C4_ResolutionFailureIs404 ==
    (req # NoReq /\ req.handler \in NodeHandlers) =>
        /\ (lookup # NotCalled /\ ~lookup.panic /\ lookup.err # NoErr) =>
               resp = httpError(S_NodeNotFound, 404)
        /\ resp.status = 500 => (req.via = "direct" /\ lookup = NotCalled)
        /\ req.via = "direct" => resp = httpError(S_InternalServerError, 500)

\* the gateway refused the handle (readiness was not reached in time) and the
\* route answered 404
C4_Witness ==
    /\ req # NoReq
    /\ req.handler = "handleEC2MetaData"
    /\ lookup # NotCalled
    /\ lookup.err = "failed to get ironic client"
    /\ req.env.poll = "timeout"
    /\ resp.status = 404
    /\ resp.body.val = S_NodeNotFound \o <<"\n">>


(***************************************************************************)
(* Properties of the metadata renderer                                     *)
(***************************************************************************)

\* ret holds what operation op returned for the node in arg
Returned(op) == ret # NotCalled /\ ret.op = op /\ arg.kind = "node"

\* the node has a config-drive payload and extractFromConfigDrive yields it
Parses(node) == extractFromConfigDrive(node).err = NoErr

\* member k of the config-drive value of the node as the Ironic API sent it, Absent
\* when the config-drive is no object or has no such member
RawMember(node, k) ==
    IF /\ Has(node.InstanceInfo, K_configdrive)
       /\ node.InstanceInfo[K_configdrive].kind = "object"
       /\ Has(node.InstanceInfo[K_configdrive].val, k)
    THEN node.InstanceInfo[K_configdrive].val[k]
    ELSE Absent

\* m holds exactly the string-valued members of JSON value v (none unless v is an object)
IsStringEntriesOf(m, v) ==
    /\ DOMAIN m = IF v.kind = "object" THEN {k \in DOMAIN v.val : v.val[k].kind = "string"}
                  ELSE {}
    /\ \A k \in DOMAIN m : m[k] = v.val[k].val

\* C5: getUserData returns the config-drive user-data whenever the config-drive
\* payload is present, parses and holds non-empty user-data, even if
\* instance_info.user_data is set as well; otherwise it returns
\* instance_info.user_data when that is a string, and the empty string when not.
C5_UserDataPrecedence ==
    Returned("getUserData") =>
        IF /\ Parses(arg.node)
           /\ IsString(RawMember(arg.node, K_user_data))
           /\ RawMember(arg.node, K_user_data).val # <<>>
        THEN ret.val = RawMember(arg.node, K_user_data).val
        ELSE IF /\ Has(arg.node.InstanceInfo, K_user_data)
                /\ arg.node.InstanceInfo[K_user_data].kind = "string"
        THEN ret.val = arg.node.InstanceInfo[K_user_data].val
        ELSE ret.val = <<>>

\* both the config-drive and instance_info hold user-data and the config-drive's
\* was returned
C5_Witness ==
    /\ Returned("getUserData")
    /\ Parses(arg.node)
    /\ RawMember(arg.node, K_user_data) = JStr(UD_cd)
    /\ Has(arg.node.InstanceInfo, K_user_data)
    /\ arg.node.InstanceInfo[K_user_data] = JStr(UD_ii)
    /\ ret.val = UD_cd

\* the config-drive value of the node is a JSON text that opens with "{" and decodes
\* into a config-drive payload
IsJSONStringConfigDrive(node) ==
    /\ Has(node.InstanceInfo, K_configdrive)
    /\ node.InstanceInfo[K_configdrive].kind = "string"
    /\ HasPrefix(node.InstanceInfo[K_configdrive].val, <<"{">>)
    /\ ~UnmarshalConfigDrive(node.InstanceInfo[K_configdrive].val).err

\* C6: when instance_info.configdrive is a string that begins with "{" and parses as
\* a JSON object, extractFromConfigDrive succeeds and returns the parsed payload, so
\* that the user_data of the JSON-string config-drive takes precedence over
\* instance_info.user_data in what getUserData returns.
C6_JSONStringConfigDriveUsed ==
    /\ (Returned("extractFromConfigDrive") /\ IsJSONStringConfigDrive(arg.node)) =>
           /\ ret.val.err = NoErr
           /\ ret.val.data
                  = UnmarshalConfigDrive(arg.node.InstanceInfo[K_configdrive].val).data
    /\ ( /\ Returned("getUserData")
         /\ IsJSONStringConfigDrive(arg.node)
         /\ UnmarshalConfigDrive(arg.node.InstanceInfo[K_configdrive].val).data.UserData
                # <<>> ) =>
           ret.val = UnmarshalConfigDrive(arg.node.InstanceInfo[K_configdrive].val).data.UserData

\* C7: buildNetworkData returns the config-drive network data unchanged when the
\* config-drive payload parses and supplies network data; in every other case,
\* instance_info.network_data set or not, it returns exactly one link (eth0,
\* physical, MTU 1500) and one network (network0, ipv4, link eth0).
C7_NetworkDataSource ==
    Returned("buildNetworkData") =>
        IF Parses(arg.node) /\ RawMember(arg.node, K_network_data).kind = "object"
        THEN EncodeNetworkData(ret.val) = RawMember(arg.node, K_network_data)
        ELSE /\ ret.val.Links = << [ID |-> <<"e", "t", "h", "0">>,
                                    Type |-> <<"p", "h", "y", "s", "i", "c", "a", "l">>,
                                    MTU |-> 1500] >>
             /\ ret.val.Networks = << [ID |-> <<"n", "e", "t", "w", "o", "r", "k", "0">>,
                                       Link |-> <<"e", "t", "h", "0">>,
                                       Type |-> <<"i", "p", "v", "4">>,
                                       IPAddress |-> <<>>] >>
             /\ ret.val.Services = <<>>

\* the config-drive parses and supplies no network data, instance_info.network_data
\* is set, and the fallback topology was returned
C7_Witness ==
    /\ Returned("buildNetworkData")
    /\ Parses(arg.node)
    /\ RawMember(arg.node, K_user_data) = JStr(UD_cd)
    /\ RawMember(arg.node, K_network_data) = Absent
    /\ Has(arg.node.InstanceInfo, K_network_data)
    /\ Len(ret.val.Links) = 1
    /\ ret.val.Links[1].MTU = 1500

\* C8: for a node without a usable config-drive, the meta map of buildMetaData holds
\* exactly the string-valued entries of the node's properties and the public-keys
\* map exactly the string-valued entries of instance_info.public_keys.
C8_MetaDataWithoutConfigDrive ==
    (Returned("buildMetaData") /\ ~Parses(arg.node)) =>
        /\ IsStringEntriesOf(ret.val.Meta, JObj(arg.node.Properties))
        /\ IsStringEntriesOf(ret.val.PublicKeys,
                             IF Has(arg.node.InstanceInfo, K_public_keys)
                             THEN arg.node.InstanceInfo[K_public_keys] ELSE JNull)

\* an ISO config-drive, properties and public keys with a non-string value each:
\* the string-valued entries were kept, the others dropped
C8_Witness ==
    /\ Returned("buildMetaData")
    /\ Has(arg.node.InstanceInfo, K_configdrive)
    /\ arg.node.InstanceInfo[K_configdrive] = CD_ISO
    /\ arg.node.Properties = PropsObj
    /\ Has(arg.node.InstanceInfo, K_public_keys)
    /\ arg.node.InstanceInfo[K_public_keys] = KeysObj
    /\ Cardinality(DOMAIN ret.val.Meta) = 2
    /\ DOMAIN ret.val.PublicKeys = {<<"k", "1">>}

\* C9: for a node whose config-drive payload parses, buildMetaData takes the
\* instance type and a non-empty hostname from the config-drive meta_data, replaces
\* the public-keys map only when the config-drive public_keys is non-empty, and
\* consults neither instance_info.public_keys nor the properties: the meta map stays
\* empty, and the public-keys map stays empty when the config-drive supplies none.
C9_MetaDataWithConfigDrive ==
    (Returned("buildMetaData") /\ Parses(arg.node)) =>
        LET md == RawMember(arg.node, K_meta_data)
            pk == RawMember(arg.node, K_public_keys)
        IN  /\ ret.val.InstanceType
                   = IF md.kind = "object" /\ Has(md.val, K_instance_type)
                     THEN md.val[K_instance_type].val ELSE <<>>
            /\ ret.val.Hostname
                   = IF /\ md.kind = "object"
                        /\ Has(md.val, K_hostname)
                        /\ md.val[K_hostname].val # <<>>
                     THEN md.val[K_hostname].val
                     ELSE IF arg.node.Name # <<>> THEN arg.node.Name ELSE arg.node.UUID
            /\ IsStringEntriesOf(ret.val.PublicKeys, pk)
            /\ ret.val.Meta = EmptyMap

\* the config-drive holds meta_data and no public keys, instance_info holds public
\* keys and the node has properties: neither was consulted
C9_Witness ==
    /\ Returned("buildMetaData")
    /\ Parses(arg.node)
    /\ RawMember(arg.node, K_meta_data) = MetaDataObj
    /\ RawMember(arg.node, K_public_keys) = Absent
    /\ Has(arg.node.InstanceInfo, K_public_keys)
    /\ arg.node.InstanceInfo[K_public_keys] = KeysObj
    /\ arg.node.Properties = PropsObj
    /\ ret.val.Hostname = <<"h", "c", "d">>
    /\ ret.val.PublicKeys = EmptyMap
    /\ ret.val.Meta = EmptyMap

\* C10: on the user-data routes, when the node is resolved and getUserData yields the
\* empty string the response is 404 'User data not found'; otherwise it is 200 with
\* content type text/plain and a body that is exactly the user-data string.
C10_UserDataRoutes ==
    ( /\ req # NoReq
      /\ req.via = "router"
      /\ req.path \in {"/openstack/latest/user_data", "/latest/user-data"}
      /\ lookup # NotCalled
      /\ lookup.err = NoErr ) =>
        IF getUserData(lookup.node) = <<>>
        THEN resp = httpError(S_UserDataNotFound, 404)
        ELSE /\ resp.status = 200
             /\ resp.ctype = "text/plain"
             /\ resp.body = [kind |-> "text", val |-> getUserData(lookup.node)]

\* a node without user-data was resolved on the EC2 user-data route
C10_Witness ==
    /\ req # NoReq
    /\ req.path = "/latest/user-data"
    /\ lookup # NotCalled
    /\ lookup.err = NoErr
    /\ lookup.node = NodeC
    /\ resp.status = 404
    /\ resp.body.val = S_UserDataNotFound \o <<"\n">>


(***************************************************************************)
(* Properties of the gateway                                               *)
(***************************************************************************)

\* caller c's call has returned
CallReturned(c) == calls[c].ret.returned

\* caller c's call polled and ended because the timeout elapsed: through the timeout
\* branch of the select, or through its done branch when the goroutine gave up
TimedOutCall(c) ==
    /\ CallReturned(c)
    /\ calls[c].polled
    /\ \/ calls[c].ret.via = "timeout"
       \/ calls[c].ret.via = "done" /\ ~polling[c].ok

\* caller c's call failed at once: an error, no polling, no probe
FailedFast(c) ==
    /\ calls[c].ret.err # NoErr
    /\ ~calls[c].polled
    /\ ~calls[c].probed

\* C11: once a polling attempt of GetIronicClient has ended because the configured
\* timeout elapsed, that call returns an error and every call made later returns an
\* error at once, without polling again
C11_TimeoutIsPermanent ==
    \A c \in Callers :
        /\ TimedOutCall(c) => calls[c].ret.err # NoErr
        /\ CallReturned(c) /\ calls[c].timedOut0 => FailedFast(c)

\* the same, on a gateway whose SetIronicClient has never been called
C11_NoInstall ==
    (setter = "idle" /\ ~hist.installed) => C11_TimeoutIsPermanent


\* C12: a call of GetIronicClient made after a call has succeeded, or after
\* SetIronicClient has installed a connection, or on a gateway without a timeout,
\* returns the connection the gateway holds, without an error, without polling and
\* without issuing any probe
C12_ReadyIsImmediate ==
    \A c \in Callers :
        CallReturned(c) /\ calls[c].ready0 =>
            /\ calls[c].ret.err = NoErr
            /\ calls[c].ret.client = calls[c].ret.held
            /\ calls[c].ret.via = "cached"
            /\ ~calls[c].polled
            /\ ~calls[c].probed

\* a gateway with a timeout whose polling succeeded serves a later call from its cache
C12_Witness ==
    \E c \in Callers :
        /\ CallReturned(c)
        /\ calls[c].ready0
        /\ timeout # 0
        /\ ~hist.installed /\ setter = "idle"
        /\ calls[c].ret.client = Client

\* the callers inside the critical section of GetIronicClient
InCritical == {c \in Callers : pc[c] \in {"check", "select"}}

\* the callers whose polling sequence is under way
Pollers == {c \in Callers : pc[c] = "select"}

\* caller c's call returned what an earlier polling had left behind
CachedOutcome(c) ==
    /\ calls[c].ret.via \in {"cached", "failed"}
    /\ calls[c].ret.via = "cached" => ironicUp
    /\ calls[c].ret.via = "failed" => ironicFailed /\ hist.timedOut
    /\ (setter = "idle" /\ ~hist.installed) =>
          /\ hist.polls = 1
          /\ calls[c].ret.via = "cached" <=> ~ironicFailed

\* C13: at most one caller of GetIronicClient is polling at any time, the others
\* wait outside the critical section until it is left, then return the outcome the
\* polling has cached, and no second polling sequence is ever started
C13_OnePoller ==
    /\ Cardinality(Pollers) <= 1
    /\ Cardinality(InCritical) <= 1
    /\ hist.polls <= 1
    /\ \A c \in Callers :
          (CallReturned(c) /\ ~calls[c].polled /\ timeout # 0) => CachedOutcome(c)

\* a caller that called while another caller's polling was under way has returned
\* the failure that polling left behind
C13_Witness ==
    \E c, d \in Callers :
        /\ c # d
        /\ TimedOutCall(c)
        /\ CallReturned(d)
        /\ ~calls[d].timedOut0
        /\ calls[d].ret.via = "failed"


\* this step is a step of a caller of GetIronicClient that holds ironicMux
StepOfHolder ==
    \E c \in Callers :
        /\ ironicMux = [holder |-> TRUE, caller |-> c]
        /\ pc[c] \in {"check", "select"}
        /\ pc'[c] # pc[c]

\* C21: every step that writes the connection handle or a readiness flag of the
\* gateway (ironic, ironicUp, ironicFailed) is a step of the goroutine that holds
\* ironicMux
C21_WritesUnderLock ==
    [][ (ironic' # ironic \/ ironicUp' # ironicUp \/ ironicFailed' # ironicFailed)
            => StepOfHolder ]_vars


\* the goroutine of caller c has left waitForAPI
PastLiveness(c) == polling[c].g \in {"conductor", "finished"}

\* C22 as stated: the liveness probes go on until a 2xx response is observed and the
\* driver listings begin only then, until one reports a driver, which ends the polling
\* with success; no driver listing is issued before a 2xx liveness response
C22_TwoPhases2xx ==
    \A c \in Callers :
        /\ polling[c].api \in {"200", "204"} => PastLiveness(c)
        /\ polling[c].queried => polling[c].api \in {"200", "204"}
        /\ polling[c].ok => polling[c].queried /\ polling[c].g = "finished"

\* C22 as amended: the liveness probes go on until a 200 response is observed and the
\* driver listings begin only then, until one reports a driver, which ends the polling
\* with success; no driver listing is issued before a 200 liveness response
C22_TwoPhases200 ==
    \A c \in Callers :
        /\ polling[c].api = "200" => PastLiveness(c)
        /\ polling[c].g = "api" => polling[c].api # "200" /\ ~polling[c].queried
        /\ polling[c].queried => polling[c].api = "200"
        /\ polling[c].ok => polling[c].queried /\ polling[c].g = "finished"

\* a liveness probe was answered 200, a driver listing found no driver and is being
\* repeated
C22_Witness ==
    \E c \in Callers :
        /\ polling[c].api = "200"
        /\ polling[c].g = "conductor"
        /\ polling[c].queried
        /\ polling[c].ctx = "live"
        /\ ~polling[c].ok


\* C23: a failed probe never ends the polling: the goroutine ends it only after a
\* driver listing reported a driver or after the deadline has passed, and a polling
\* call of GetIronicClient returns an error only after the deadline has passed
C23_OnlyTimeoutFails ==
    \A c \in Callers :
        /\ polling[c].done => polling[c].ok \/ polling[c].ctx = "expired"
        /\ (polling[c].g = "finished" /\ ~polling[c].ok) => polling[c].ctx = "expired"
        /\ (CallReturned(c) /\ calls[c].polled /\ calls[c].ret.err # NoErr) =>
               polling[c].ctx = "expired"

\* a liveness probe has failed and the caller is still waiting, before the deadline
C23_Witness ==
    \E c \in Callers :
        /\ pc[c] = "select"
        /\ polling[c].api \in {"503", "error"}
        /\ polling[c].g = "api"
        /\ polling[c].ctx = "live"
        /\ ~polling[c].done


\* C27: a polling call of GetIronicClient sets ironicUp only when the liveness probe
\* and the driver listing have both succeeded, and then returns the connection with
\* a nil error; a polling call whose deadline passed before both succeeded returns
\* through the timeout branch: an error, ironicFailed set and ironicUp not set by it
C27_ReadyOnlyAfterBothProbes ==
    \A c \in Callers :
        (CallReturned(c) /\ calls[c].polled) =>
            /\ calls[c].ret.via = "done" =>
                  /\ polling[c].ok
                  /\ calls[c].ret.err = NoErr
                  /\ calls[c].ret.client = calls[c].ret.held
            /\ ~polling[c].ok =>
                  /\ calls[c].ret.via = "timeout"
                  /\ calls[c].ret.err # NoErr
                  /\ ironicFailed


\* C30: every call of GetIronicClient comes to its end: a caller waiting for the
\* mutex gets it, and a polling caller returns once the polling has succeeded or the
\* deadline has passed, whatever the Ironic API answers (the call also ends when the
\* process dies of the panic of a goroutine polling a nil handle)
C30_EveryCallReturns ==
    \A c \in Callers : (pc[c] # "idle") ~> (pc[c] = "idle" \/ crashed)

\* the API never answered 200, the polling caller returned at the deadline and the
\* caller that had waited for the mutex returned after it
C30_Witness ==
    \E c, d \in Callers :
        /\ c # d
        /\ CallReturned(c)
        /\ calls[c].ret.via = "timeout"
        /\ polling[c].api \in {"503", "error"}
        /\ ~polling[c].queried
        /\ pc[d] = "idle"
        /\ CallReturned(d)
        /\ ~calls[d].timedOut0
        /\ calls[d].ret.via = "failed"


(***************************************************************************)
(* Properties of node lookup                                               *)
(***************************************************************************)

\* the gateway is a zero-value Clients: no connection, no flag, no timeout
ZeroValueClients == ironic = Nil /\ ~ironicUp /\ ~ironicFailed /\ timeout = 0

\* C14: node lookup through a zero-value Clients returns an error: it returns no
\* node and does not go on to use the missing connection
C14_UnconfiguredGatewayIsAnError ==
    (lookup # NotCalled /\ ZeroValueClients) =>
        /\ lookup.err # NoErr
        /\ lookup.node = Nil
        /\ ~lookup.panic


\* the driver_info.deploy_ramdisk_address of the node is the address ip
RamdiskAddressIs(node, ip) ==
    /\ Has(node.DriverInfo, K_deploy_ramdisk_address)
    /\ node.DriverInfo[K_deploy_ramdisk_address] = JStr(ip)

\* C15: a node whose driver_info.deploy_ramdisk_address equals the client IP is
\* matched by nodeHasIP for that client IP
C15_RamdiskAddressMatches ==
    (ret # NotCalled /\ ret.op = "nodeHasIP" /\ RamdiskAddressIs(arg.node, arg.ip)) =>
        ret.val


\* the node matches ip by a structured signal: a config-drive network entry or a
\* fixed_ips entry equal to it
StructuredMatch(node, ip) == configDriveHasIP(node, ip) \/ fixedIPsHasIP(node, ip)

\* the node matches ip through its name and through nothing else
NameOnlyMatch(node, ip) ==
    /\ nameHasIP(node, ip)
    /\ ~configDriveHasIP(node, ip)
    /\ ~fixedIPsHasIP(node, ip)
    /\ ~ipaURLHasIP(node, ip)

\* getNodeByIP listed the nodes and returned one of them
Resolved == ListingObtained /\ ~lookup.panic /\ lookup.err = NoErr

\* C20 as stated: getNodeByIP never returns a node that matches the client IP through
\* its name only when the listing holds a different node with a structured match
\* for that IP, wherever the two nodes stand in the listing
C20_StructuredBeatsName ==
    (Resolved /\ NameOnlyMatch(lookup.node, ResolvedIP)) =>
        ~ \E i \in 1..Len(ironicNodes) :
              /\ ironicNodes[i] # lookup.node
              /\ StructuredMatch(ironicNodes[i], ResolvedIP)

\* C20 as amended: getNodeByIP never returns a node that matches the client IP through
\* its name only when a different node with a structured match for that IP, whose
\* details were fetched, stands before it in the listing
C20_EarlierStructuredBeatsName ==
    Resolved =>
        \A i, j \in 1..Len(ironicNodes) :
            ( /\ i < j
              /\ i \notin req.env.getFails
              /\ StructuredMatch(ironicNodes[i], ResolvedIP)
              /\ NameOnlyMatch(ironicNodes[j], ResolvedIP) ) =>
                lookup.node # ironicNodes[j]

\* a node with a config-drive entry for the client IP stood before a node whose name
\* contains that IP, and the first was returned
C20_Witness ==
    /\ Resolved
    /\ req.env.getFails = {}
    /\ Len(ironicNodes) = 2
    /\ configDriveHasIP(ironicNodes[1], ResolvedIP)
    /\ NameOnlyMatch(ironicNodes[2], ResolvedIP)
    /\ lookup.node = ironicNodes[1]


(***************************************************************************)
(* Properties of the responses                                             *)
(***************************************************************************)

\* the request being served is a GET of /latest/meta-data whose node was resolved
EC2MetaDataResolved ==
    /\ req # NoReq
    /\ req.via = "router"
    /\ req.method = "GET"
    /\ req.path \in {"/latest/meta-data", "/latest/meta-data/"}
    /\ lookup # NotCalled
    /\ lookup.err = NoErr

\* the hostname of the claim: the name of the node, its UUID when the name is empty
NameOrUUID(node) == IF node.Name = <<>> THEN node.UUID ELSE node.Name

\* C16 as stated: GET /latest/meta-data for a resolved node answers text/plain made
\* of three lines, which carry the UUID as instance-id, the name (the UUID when the
\* name is empty) as hostname and the client IP as local-ipv4
C16_ThreeLines ==
    EC2MetaDataResolved =>
        /\ resp.status = 200
        /\ resp.ctype = "text/plain"
        /\ LET lines == SplitLines(resp.body.val)
           IN  /\ Len(lines) = 3
               /\ HasPrefix(lines[1], S_instance_id) /\ Contains(lines[1], lookup.node.UUID)
               /\ HasPrefix(lines[2], S_hostname)
               /\ Contains(lines[2], NameOrUUID(lookup.node))
               /\ HasPrefix(lines[3], S_local_ipv4) /\ Contains(lines[3], ResolvedIP)

\* C16 as amended: GET /latest/meta-data for a resolved node answers text/plain made
\* of six lines, a label line followed by a value line three times: instance-id and
\* the UUID, hostname and the name (the UUID when the name is empty), local-ipv4 and
\* the client IP
C16_SixLines ==
    EC2MetaDataResolved =>
        /\ resp.status = 200
        /\ resp.ctype = "text/plain"
        /\ resp.body.kind = "text"
        /\ SplitLines(resp.body.val) =
              <<S_instance_id, lookup.node.UUID, S_hostname, NameOrUUID(lookup.node),
                S_local_ipv4, ResolvedIP>>

\* a node without a name was resolved on /latest/meta-data/ and its UUID was sent as
\* the hostname
C16_Witness ==
    /\ EC2MetaDataResolved
    /\ req.path = "/latest/meta-data/"
    /\ lookup.node = NodeB
    /\ ResolvedIP = IPB
    /\ SplitLines(resp.body.val)[4] = NodeB.UUID


\* the bodies http.Error writes for the three fixed messages
FixedErrorBodies ==
    { S_NodeNotFound \o <<"\n">>, S_UserDataNotFound \o <<"\n">>,
      S_InternalServerError \o <<"\n">> }

\* C17: every error response a handler writes has one of the three fixed messages
\* as its whole body, with status 404 or 500: no error text and no node data
C17_FixedErrorBodies ==
    (resp # NoResp /\ ~resp.panic /\ resp.status # 200) =>
        /\ resp.status \in {404, 500}
        /\ resp.body.kind = "text"
        /\ resp.body.val \in FixedErrorBodies

\* the listing call failed inside getNodeByIP and the client was told 'Node not found'
C17_Witness ==
    /\ req # NoReq
    /\ lookup # NotCalled
    /\ lookup.err = "failed to list nodes"
    /\ resp.status = 404
    /\ resp.body.val = S_NodeNotFound \o <<"\n">>


\* the document {"ironic": {"version": "1.0"}}
VendorDocument == JObj(S_ironic :> JObj(S_version :> JStr(S_1_0)))

\* the document {"static": {"ironic-metadata": {"version": "1.0"}}}
Vendor2Document == JObj(S_static :> JObj(S_ironic_metadata :> JObj(S_version :> JStr(S_1_0))))

\* a step that serves a request for path with handler h
Serves(h, path) ==
    /\ req = NoReq
    /\ req' # NoReq
    /\ req'.handler = h
    /\ req'.via = "router" => req'.path = path

\* the response is 200 application/json with document doc
IsJSONResponse(r, doc) ==
    /\ r.status = 200
    /\ r.ctype = "application/json"
    /\ r.body = [kind |-> "json", val |-> doc]

\* C18: every step that serves vendor_data.json or vendor_data2.json answers with the
\* fixed document of that route, whatever the client, the node collection and the
\* state of the gateway, calls neither getNodeByIP nor GetIronicClient and leaves the
\* gateway as it was
C18_VendorDataIsStatic ==
    [][ /\ Serves("handleVendorData", "/openstack/latest/vendor_data.json") =>
              /\ IsJSONResponse(resp', VendorDocument)
              /\ lookup' = NotCalled
              /\ UNCHANGED <<ironic, ironicUp, ironicFailed, crashed, ironicNodes>>
        /\ Serves("handleVendorData2", "/openstack/latest/vendor_data2.json") =>
              /\ IsJSONResponse(resp', Vendor2Document)
              /\ lookup' = NotCalled
              /\ UNCHANGED <<ironic, ironicUp, ironicFailed, crashed, ironicNodes>>
      ]_vars

\* vendor_data2.json is being served although the gateway has failed for good and
\* the collection holds nodes
C18_Witness ==
    /\ req # NoReq
    /\ req.via = "router"
    /\ req.path = "/openstack/latest/vendor_data2.json"
    /\ ironicFailed
    /\ Len(ironicNodes) > 0
    /\ IsJSONResponse(resp, Vendor2Document)


(***************************************************************************)
(* Properties of the DHCP lease parser                                     *)
(***************************************************************************)

\* the MAC addresses the leases of the file pair with the address ip
LeasedMACs(file, ip) ==
    {file[i].mac : i \in {j \in 1..Len(file) : file[j].kind = "lease" /\ file[j].ip = ip}}

\* C19: parseDHCPLeaseFile returns the MAC of the lease line whose IP field is the
\* target IP, whatever malformed lines stand before or after it, and returns an
\* error when the file is empty or no lease line has the target IP
C19_LeaseLookup ==
    (ret # NotCalled /\ ret.op = "parseDHCPLeaseFile") =>
        IF LeasedMACs(arg.file, arg.ip) = {}
        THEN ret.val.err # NoErr
        ELSE ret.val.err = NoErr /\ ret.val.mac \in LeasedMACs(arg.file, arg.ip)

\* the lease stood between two malformed lines and its MAC was found
C19_Witness ==
    /\ ret # NotCalled
    /\ ret.op = "parseDHCPLeaseFile"
    /\ Len(arg.file) = 3
    /\ arg.file[1].kind = "bad"
    /\ arg.file[2] = [kind |-> "lease", mac |-> MAC1, ip |-> IPA, text |-> <<>>]
    /\ arg.file[3].kind = "bad"
    /\ arg.ip = IPA
    /\ ret.val = [mac |-> MAC1, err |-> NoErr]

(***************************************************************************)
(* Properties of the config-drive fall-through                             *)
(***************************************************************************)

\* the node as Ironic would report it had it no config-drive
WithoutConfigDrive(node) ==
    [node EXCEPT !.InstanceInfo =
        [k \in DOMAIN node.InstanceInfo \ {K_configdrive} |-> node.InstanceInfo[k]]]

\* the user data instance_info supplies: its user_data when that is a string
InstanceInfoUserData(node) ==
    IF Has(node.InstanceInfo, K_user_data) /\ node.InstanceInfo[K_user_data].kind = "string"
    THEN node.InstanceInfo[K_user_data].val
    ELSE <<>>

\* C24: when the node of the client has no config-drive, or one that fails extraction
\* (a string, JSON or not), extractFromConfigDrive reports an error and no payload,
\* and the failure is not surfaced: meta_data.json and network_data.json are answered
\* 200 with the document of the same node without a config-drive, and user_data is
\* answered with instance_info.user_data, 404 'User data not found' only when
\* instance_info supplies no user data.
C24_ExtractionFailureFallsThrough ==
    (Resolved /\ ~Parses(lookup.node)) =>
        /\ extractFromConfigDrive(lookup.node).data = Nil
        /\ ~resp.panic
        /\ resp.status # 500
        /\ req.handler = "handleMetaData" =>
               /\ resp.status = 200
               /\ resp = writeJSONResponse(
                             EncodeMetaData(buildMetaData(WithoutConfigDrive(lookup.node))))
               /\ IsStringEntriesOf(buildMetaData(lookup.node).Meta,
                                    JObj(lookup.node.Properties))
        /\ req.handler = "handleNetworkData" =>
               /\ resp.status = 200
               /\ resp = writeJSONResponse(
                             EncodeNetworkData(
                                 buildNetworkData(WithoutConfigDrive(lookup.node))))
        /\ req.handler = "handleUserData" =>
               IF InstanceInfoUserData(lookup.node) # <<>>
               THEN resp = writeTextResponse(InstanceInfoUserData(lookup.node))
               ELSE resp = httpError(S_UserDataNotFound, 404)

\* the node of the client has an ISO path for a config-drive, and its meta_data.json
\* was answered 200
C24_Witness ==
    /\ Resolved
    /\ req.handler = "handleMetaData"
    /\ Has(lookup.node.InstanceInfo, K_configdrive)
    /\ lookup.node.InstanceInfo[K_configdrive] = CD_ISO
    /\ extractFromConfigDrive(lookup.node).err = "ISO configdrive parsing not yet implemented"
    /\ resp.status = 200

(***************************************************************************)
(* Properties of requests served side by side                              *)
(***************************************************************************)

\* C25: every request lists the nodes anew and resolves against that listing: the
\* slice it scans is the collection Ironic held when the request listed it, whatever
\* an earlier or another request listed; the node it returns is a node of its own
\* listing, with the details Ironic holds now, that matches its own client IP; and
\* no step of another request or of Ironic changes its client IP or its listing.
C25_OwnFreshListing ==
    [][\A q \in Requests :
          LET f == inflight[q]
              g == inflight'[q]
          IN  /\ (f.pc = "list" /\ g.pc = "scan") => g.allNodes = ironicNodes
              /\ (f.pc = "list" /\ g.pc = "done" /\ g.res.err = "no node found for IP") =>
                     ironicNodes = <<>>
              /\ (f.pc = "scan" /\ g.pc = "done" /\ g.res.err = NoErr) =>
                     /\ \E k \in 1..Len(ironicNodes) : ironicNodes[k] = g.res.node
                     /\ \E k \in 1..Len(f.allNodes) : f.allNodes[k].UUID = g.res.node.UUID
                     /\ MatchesBySignal(g.res.node, f.clientIP)
              /\ (f.pc # "idle" /\ g.pc # "idle") => g.clientIP = f.clientIP
              /\ (f.pc = "scan" /\ g.pc # "idle") => g.allNodes = f.allNodes]_vars

\* two requests of the same client IP are being answered side by side: the one that
\* listed before the node of that client was enrolled found no node, the one that
\* listed after it found the node
C25_Witness ==
    /\ inflight[1].pc = "done"
    /\ inflight[2].pc = "done"
    /\ inflight[1].clientIP = inflight[2].clientIP
    /\ inflight[1].allNodes = <<>>
    /\ inflight[1].res.err = "no node found for IP"
    /\ inflight[2].allNodes = ironicNodes
    /\ inflight[2].res.err = NoErr
    /\ inflight[2].res.node = ironicNodes[1]

(***************************************************************************)
(* Properties of repeated node lookups                                     *)
(***************************************************************************)

\* the call recorded in r returned a node or found none: it listed the nodes
Listed(r) == ~r.val.panic /\ r.val.err \in {NoErr, "no node found for IP"}

\* getNodeByIP has been called twice for one client IP before one collection, and
\* both calls listed the nodes
ResolvedTwice == ret.op = "getNodeByIP again" /\ Listed(ret) /\ Listed(ret.first)

\* C26 as stated: two calls of getNodeByIP for the same client IP before the same
\* collection return the same node, or both find no node
C26_Deterministic ==
    ResolvedTwice => ret.val = ret.first.val

\* C26 as amended: two calls of getNodeByIP for the same client IP before the same
\* collection, every detail fetch of both succeeding, return the same node, or both
\* find no node
C26_DeterministicWhenFetched ==
    (ResolvedTwice /\ ret.env.getFails = {} /\ ret.first.env.getFails = {}) =>
        ret.val = ret.first.val

\* two nodes of the collection match the client IP, every detail fetch succeeded,
\* and both calls returned the first of the two
C26_Witness ==
    /\ ResolvedTwice
    /\ ret.env.getFails = {}
    /\ ret.first.env.getFails = {}
    /\ Len(ironicNodes) = 2
    /\ nodeHasIP(ironicNodes[1], arg.ip)
    /\ nodeHasIP(ironicNodes[2], arg.ip)
    /\ ret.val.node = ironicNodes[1]
    /\ ret.first.val.node = ironicNodes[1]

(***************************************************************************)
(* Properties of the lookup for an empty client IP                         *)
(***************************************************************************)

\* C28: when the client IP taken from the request is the empty string (the first
\* entry of X-Forwarded-For is blank), getNodeByIP matches no node of the listing,
\* whatever the collection: it fails with the no-node-found error and the
\* node-dependent route answers 404.
C28_EmptyClientIPMatchesNoNode ==
    (ListingObtained /\ req.via = "router" /\ req.xff # <<>> /\ ResolvedIP = <<>>) =>
        /\ lookup.err = "no node found for IP"
        /\ lookup.node = Nil
        /\ resp.status = 404

(***************************************************************************)
(* Properties of the lookup when a detail fetch fails                      *)
(***************************************************************************)

\* the positions of the listing whose details the request being served fetched
Fetched == (1..Len(ironicNodes)) \ req.env.getFails

\* C29: a listed node whose detail fetch or decoding fails is skipped and the scan
\* goes on: getNodeByIP returns the first node, in listing order, among those whose
\* details were fetched that matches the client IP, and fails with the no-node-found
\* error, and with no other, when there is none.
C29_FailedFetchIsSkipped ==
    ListingObtained =>
        /\ ~lookup.panic
        /\ IF Hits(ResolvedIP) \cap Fetched # {}
           THEN /\ lookup.err = NoErr
                /\ lookup.node = ironicNodes[First(Hits(ResolvedIP) \cap Fetched)]
           ELSE /\ lookup.err = "no node found for IP"
                /\ lookup.node = Nil

\* both nodes of the listing match the client IP, the detail fetch of the first
\* failed, and the second was returned
C29_Witness ==
    /\ ListingObtained
    /\ Len(ironicNodes) = 2
    /\ Hits(ResolvedIP) = {1, 2}
    /\ req.env.getFails = {1}
    /\ lookup.err = NoErr
    /\ lookup.node = ironicNodes[2]

====
